---- MODULE Spec2Model ----
(***************************************************************************)
(* The data-driven map engine of Those-Who-Fight: the map loader and its   *)
(* validation sequence (engine/map_loader.py), the MapData query surface,  *)
(* the entity model (engine/entity_system.py) and the layer compositing of *)
(* the renderer (engine/map_renderer.py).                                  *)
(*                                                                         *)
(* A map document and a tileset document sit on disk; load_map turns them  *)
(* into a MapData or raises; the queries are then called on the MapData.   *)
(* Every call records its arguments and its outcome in `call`.  The        *)
(* interaction resolver (engine/interactions.py) is called with a player   *)
(* state, and the driving loop of tools/test_harness.py moves the player   *)
(* over the maps on disk.                                                  *)
(***************************************************************************)
EXTENDS Integers, Sequences, FiniteSets, TLC

VARIABLES
    doc,      \* the map document on disk (a JSON object)
    loaded,   \* "" before load_map ran, "ok", or the error load_map raised
    map,      \* the MapData load_map returned (NoMap otherwise)
    call,     \* the call on the query surface whose outcome the caller holds
    player,   \* the PlayerState of the driving loop
    disk,     \* the map documents under data/maps, by map name
    step      \* the driving loop: where it stands and what its last turn did

vars == <<doc, loaded, map, call, player, disk, step>>

\* what the loader and the query surface leave alone
idle == <<player, disk, step>>

----------------------------------------------------------------------------
(* Bounds of the model.                                                    *)

MaxW == 2          \* widest map document
MaxH == 2          \* tallest map document
MaxLayers == 2     \* most layer records in a map document
MaxEntities == 2   \* most entity records in a map document

----------------------------------------------------------------------------
(* Python values.                                                          *)

\* None, as the value of dict.get on an absent key
None == "<None>"

\* the truth value Python gives a string or None
Truthy(v) == v \notin {None, ""}

\* dict.get(key, default) on a JSON object modelled as a record with the set
\* `keys` of the keys it really holds
Get(obj, key, default) == IF key \in obj.keys THEN obj[key] ELSE default

\* list[i]: a negative index counts from the end, anything else out of
\* range raises IndexError
InRange(list, i) == -Len(list) <= i /\ i < Len(list)

PyIndex(list, i) == IF i >= 0 THEN list[i + 1] ELSE list[Len(list) + i + 1]

\* the empty dict
EmptyDict == [k \in {} |-> None]

\* what a call returns or raises
RetTile(t)   == [raised |-> "", tile |-> t, flag |-> FALSE, entity |-> 0]
RetFlag(b)   == [raised |-> "", tile |-> 0, flag |-> b, entity |-> 0]
RetEntity(i) == [raised |-> "", tile |-> 0, flag |-> FALSE, entity |-> i]
Raise(e)     == [raised |-> e, tile |-> 0, flag |-> FALSE, entity |-> 0]

----------------------------------------------------------------------------
(* Tileset (engine/map_loader.py).                                         *)

\* data/tilesets/overworld_tileset_v1.json: tile 1 is solid, tile 2 is not,
\* every other id is unknown to the tileset
TilesetDocs ==
    [overworld_tileset_v1 |->
        [tile_size |-> 16,
         encoding |-> "list",
         tiles |-> << [id |-> 1,
                       keys |-> {"id", "solid", "glyph", "atlas_image", "uv", "sprite_key"},
                       solid |-> TRUE, glyph |-> "#", atlas_image |-> "overworld.png",
                       uv |-> <<1, 0>>, sprite_key |-> "wall"],
                      [id |-> 2, keys |-> {"id", "glyph"},
                       solid |-> FALSE, glyph |-> ".", atlas_image |-> None,
                       uv |-> <<>>, sprite_key |-> None] >>]]

\* None where a tuple can stand (uv, source_rect)
NoUV == <<>>

\* str(i) and int(s) on the ids a tileset document uses
IntToStr(i) == <<"0", "1", "2", "3", "4", "5", "6", "7", "8", "9">>[i + 1]
ParseInt(s) == CHOOSE i \in 0..9 : IntToStr(i) = s

\* tile_items: the (id, record) pairs of data["tiles"], with int() applied
\* to the id.  A JSON object is the list of its (key, record) pairs and its
\* keys are strings; a list holds records with an integer "id"
TileItems(data) ==
    IF data.encoding = "dict"
    THEN [i \in 1..Len(data.tiles) |-> <<ParseInt(data.tiles[i][1]), data.tiles[i][2]>>]
    ELSE [i \in 1..Len(data.tiles) |-> <<data.tiles[i].id, data.tiles[i]>>]

\* the name of a tile without the fallback to "key"
TileNameNoKey(tile, tile_id) ==
    IF Truthy(Get(tile, "name", None)) THEN tile.name
    ELSE "tile_" \o IntToStr(tile_id)

\* tile.get("name") or tile.get("key") or f"tile_{tile_id}"
TileName(tile, tile_id) ==
    IF Truthy(Get(tile, "name", None)) THEN tile.name
    ELSE IF Truthy(Get(tile, "key", None)) THEN tile.key
    ELSE "tile_" \o IntToStr(tile_id)

\* TilesetTile, as load_tileset builds it from a record
TilesetTile(tile_id, tile) ==
    [tile_id |-> tile_id,
     name |-> TileName(tile, tile_id),
     solid |-> Get(tile, "solid", FALSE),
     glyph |-> Get(tile, "glyph", "?"),
     tags |-> Get(tile, "tags", <<>>),
     atlas_image |-> Get(tile, "atlas_image", None),
     uv |-> Get(tile, "uv", NoUV),
     sprite_key |-> Get(tile, "sprite_key", None)]

\* the loop of load_tileset over the first k items: the dict `tiles`
RECURSIVE TilesLoop(_, _)
TilesLoop(items, k) ==
    IF k = 0 THEN EmptyDict
    ELSE (items[k][1] :> TilesetTile(items[k][1], items[k][2]))
         @@ TilesLoop(items, k - 1)

\* MapLoader.load_tileset on the content of the tileset's file
parse_tileset(tileset_id, data) ==
    [tileset_id |-> tileset_id,
     tile_size |-> data.tile_size,
     tiles |-> TilesLoop(TileItems(data), Len(data.tiles))]

\* MapLoader.load_tileset
load_tileset(tileset_id) == parse_tileset(tileset_id, TilesetDocs[tileset_id])

\* Tileset.glyph with a blank for a tile the tileset does not have
TilesetGlyphBlank(tileset, tile_id) ==
    IF tile_id \notin DOMAIN tileset.tiles THEN " "
    ELSE tileset.tiles[tile_id].glyph

\* Tileset.glyph
TilesetGlyph(tileset, tile_id) ==
    IF tile_id \notin DOMAIN tileset.tiles THEN "?"
    ELSE tileset.tiles[tile_id].glyph

\* TileSprite
TileSprite(atlas_image, uv, sprite_key) ==
    [atlas_image |-> atlas_image, uv |-> uv, sprite_key |-> sprite_key]

\* Tileset.sprite
sprite(tileset, tile_id) ==
    IF tile_id \notin DOMAIN tileset.tiles THEN TileSprite(None, NoUV, None)
    ELSE LET tile == tileset.tiles[tile_id]
         IN TileSprite(tile.atlas_image, tile.uv, tile.sprite_key)

\* Tileset.is_solid taking an unknown tile for a solid one
TilesetIsSolidByDefault(tileset, tile_id) ==
    IF tile_id \notin DOMAIN tileset.tiles THEN TRUE
    ELSE tileset.tiles[tile_id].solid

\* Tileset.is_solid
TilesetIsSolid(tileset, tile_id) ==
    IF tile_id \notin DOMAIN tileset.tiles THEN FALSE
    ELSE tileset.tiles[tile_id].solid

----------------------------------------------------------------------------
(* Entity (engine/entity_system.py).                                       *)

\* Entity.covers_tile
covers_tile(entity, tile_x, tile_y) ==
    /\ entity.x <= tile_x /\ tile_x < entity.x + entity.w
    /\ entity.y <= tile_y /\ tile_y < entity.y + entity.h

\* the keys Entity.from_dict reads with raw[...]: a record without one of
\* them raises KeyError
FromDictKeys == {"id", "type", "x", "y"}

\* Entity.from_dict
from_dict(raw) ==
    [id |-> raw.id,
     type |-> raw.type,
     x |-> raw.x,
     y |-> raw.y,
     w |-> Get(raw, "w", 1),
     h |-> Get(raw, "h", 1),
     props |-> Get(raw, "props", [keys |-> {}])]

\* PlayerState
PlayerState(x, y, facing) == [x |-> x, y |-> y, facing |-> facing]

NoPlayer == PlayerState(0, 0, "")

\* InteractionResult; `none` says that check_trigger returned None instead
InteractionResult(message, transition_map, transition_spawn) ==
    [none |-> FALSE, message |-> message,
     transition_map |-> transition_map, transition_spawn |-> transition_spawn]

NoResult == [InteractionResult(None, None, None) EXCEPT !.none = TRUE]

----------------------------------------------------------------------------
(* MapData and its query surface (engine/map_loader.py).                   *)

NoMap == [name |-> None]

\* MapData.index
index(m, x, y) == y * m.width + x

\* the bounds test with <= for <
InBoundsInclusive(m, x, y) == 0 <= x /\ x <= m.width /\ 0 <= y /\ y <= m.height

\* `0 <= x < self.width and 0 <= y < self.height`
InBounds(m, x, y) == 0 <= x /\ x < m.width /\ 0 <= y /\ y < m.height

\* layer.data[self.index(x, y)]
TileAt(m, layer_name, x, y) ==
    LET data == m.layers[layer_name].data
        i == index(m, x, y)
    IN IF InRange(data, i) THEN RetTile(PyIndex(data, i)) ELSE Raise("IndexError")

\* MapData.get_tile
get_tile(m, layer_name, x, y) ==
    IF layer_name \notin DOMAIN m.layers THEN Raise("KeyError")
    ELSE IF ~InBounds(m, x, y) THEN RetTile(0)
    ELSE TileAt(m, layer_name, x, y)

\* MapData.is_solid without the precedence of the collision layer
is_solid_any_layer(m, x, y) ==
    IF ~InBounds(m, x, y) THEN RetFlag(TRUE)
    ELSE RetFlag(\E n \in DOMAIN m.layers :
                    LET tile_id == TileAt(m, n, x, y).tile
                    IN tile_id # 0 /\ TilesetIsSolid(m.tileset, tile_id))

\* MapData.is_solid
is_solid(m, x, y) ==
    IF ~InBounds(m, x, y) THEN RetFlag(TRUE)
    ELSE IF "collision" \in DOMAIN m.layers
         THEN LET t == TileAt(m, "collision", x, y)
              IN IF t.raised # "" THEN t ELSE RetFlag(t.tile # 0)
    ELSE IF \E n \in DOMAIN m.layers : TileAt(m, n, x, y).raised # ""
         THEN Raise("IndexError")
    ELSE RetFlag(\E n \in DOMAIN m.layers :
                    LET tile_id == TileAt(m, n, x, y).tile
                    IN tile_id # 0 /\ TilesetIsSolid(m.tileset, tile_id))

\* MapData.get_entities_by_type
get_entities_by_type(m, entity_type) ==
    SelectSeq(m.entities, LAMBDA entity : entity.type = entity_type)

\* the entity_types argument of get_entity_at: None, or a list of type names
NoTypes == [given |-> FALSE, list |-> <<>>]
Types(list) == [given |-> TRUE, list |-> list]
InList(v, list) == \E i \in 1..Len(list) : list[i] = v

\* `entity_types and entity.type not in entity_types`: the entity is skipped
Skipped(entity, entity_types) ==
    /\ entity_types.given /\ Len(entity_types.list) > 0
    /\ ~InList(entity.type, entity_types.list)

\* the loop of get_entity_at from the i-th entity on: the position in
\* m.entities of the entity returned, 0 for None
RECURSIVE EntityAtLoop(_, _, _, _, _)
EntityAtLoop(m, i, x, y, entity_types) ==
    IF i > Len(m.entities) THEN 0
    ELSE IF Skipped(m.entities[i], entity_types)
         THEN EntityAtLoop(m, i + 1, x, y, entity_types)
    ELSE IF covers_tile(m.entities[i], x, y) THEN i
    ELSE EntityAtLoop(m, i + 1, x, y, entity_types)

\* MapData.get_entity_at
get_entity_at(m, x, y, entity_types) ==
    RetEntity(EntityAtLoop(m, 1, x, y, entity_types))

----------------------------------------------------------------------------
(* MapRenderer (engine/map_renderer.py).                                   *)

LAYER_ORDER == <<"ground", "details", "structures", "overhead">>

\* the layers composite_tile and render_tiles visit, in LAYER_ORDER
Scanned(m, include_overhead) ==
    SelectSeq(LAYER_ORDER,
              LAMBDA n : /\ ~(~include_overhead /\ n = "overhead")
                         /\ n \in DOMAIN m.layers
                         /\ m.layers[n].visible)

\* the loop of composite_tile keeping the lowest tile that is not empty
RECURSIVE CompositeLoopLowest(_, _, _, _, _)
CompositeLoopLowest(m, layers, k, x, y) ==
    IF k = 0 THEN RetTile(0)
    ELSE LET before == CompositeLoopLowest(m, layers, k - 1, x, y)
             candidate == TileAt(m, layers[k], x, y)
         IN IF before.raised # "" THEN before
            ELSE IF candidate.raised # "" THEN candidate
            ELSE IF before.tile # 0 THEN before
            ELSE candidate

\* the loop of composite_tile over the first k scanned layers
RECURSIVE CompositeLoop(_, _, _, _, _)
CompositeLoop(m, layers, k, x, y) ==
    IF k = 0 THEN RetTile(0)
    ELSE LET before == CompositeLoop(m, layers, k - 1, x, y)
             candidate == TileAt(m, layers[k], x, y)
         IN IF before.raised # "" THEN before
            ELSE IF candidate.raised # "" THEN candidate
            ELSE IF candidate.tile # 0 THEN candidate
            ELSE before

\* composite_tile scanning the invisible layers too
composite_tile_all_layers(m, x, y, include_overhead) ==
    LET layers == SelectSeq(LAYER_ORDER,
                            LAMBDA n : /\ ~(~include_overhead /\ n = "overhead")
                                       /\ n \in DOMAIN m.layers)
    IN CompositeLoop(m, layers, Len(layers), x, y)

\* MapRenderer.composite_tile
composite_tile(m, x, y, include_overhead) ==
    LET layers == Scanned(m, include_overhead)
    IN CompositeLoop(m, layers, Len(layers), x, y)

\* the x loop of render_ascii from the k-th value of xs on: the characters
\* of the row, joined
RECURSIVE AsciiRow(_, _, _, _, _)
AsciiRow(m, xs, k, y, include_overhead) ==
    IF k > Len(xs) THEN ""
    ELSE (IF ~(0 <= xs[k] /\ xs[k] < m.width /\ 0 <= y /\ y < m.height) THEN " "
          ELSE TilesetGlyph(m.tileset, composite_tile(m, xs[k], y, include_overhead).tile))
         \o AsciiRow(m, xs, k + 1, y, include_overhead)

\* MapRenderer.render_ascii
render_ascii(m, view_x, view_y, view_w, view_h, include_overhead) ==
    [i \in 1..(IF view_h > 0 THEN view_h ELSE 0) |->
        AsciiRow(m, [j \in 1..(IF view_w > 0 THEN view_w ELSE 0) |-> view_x + j - 1],
                 1, view_y + i - 1, include_overhead)]

\* TileRenderCommand
TileRenderCommand(tile_id, layer, x, y, sprite_key, atlas_image, source_rect) ==
    [tile_id |-> tile_id, layer |-> layer, x |-> x, y |-> y,
     sprite_key |-> sprite_key, atlas_image |-> atlas_image,
     source_rect |-> source_rect]

\* range(start, start + n) counting down from its last value
RangeDescending(start, n) ==
    [i \in 1..(IF n > 0 THEN n ELSE 0) |-> start + n - i]

\* range(start, start + n), as the list of its values
Range(start, n) ==
    [i \in 1..(IF n > 0 THEN n ELSE 0) |-> start + i - 1]

\* the body of the x loop of render_tiles that appends a command for the
\* empty tile too
RenderCellNoSkip(m, layer_name, x, y) ==
    IF ~(0 <= x /\ x < m.width) THEN <<>>
    ELSE <<TileRenderCommand(PyIndex(m.layers[layer_name].data, index(m, x, y)),
                             layer_name, x * m.tile_size, y * m.tile_size,
                             None, None, NoUV)>>

\* the body of the x loop of render_tiles: the commands appended for a cell
RenderCell(m, layer_name, x, y) ==
    IF ~(0 <= x /\ x < m.width) THEN <<>>
    ELSE LET tile_id == PyIndex(m.layers[layer_name].data, index(m, x, y))
         IN IF tile_id = 0 THEN <<>>
            ELSE LET s == sprite(m.tileset, tile_id)
                     tile_size == m.tile_size
                     source_rect ==
                         IF Truthy(s.atlas_image) /\ s.uv # NoUV
                         THEN <<s.uv[1] * tile_size, s.uv[2] * tile_size,
                                tile_size, tile_size>>
                         ELSE NoUV
                 IN <<TileRenderCommand(tile_id, layer_name, x * tile_size,
                                        y * tile_size, s.sprite_key,
                                        s.atlas_image, source_rect)>>

\* the x loop of render_tiles from the k-th value of xs on
RECURSIVE RenderRow(_, _, _, _, _)
RenderRow(m, layer_name, xs, k, y) ==
    IF k > Len(xs) THEN <<>>
    ELSE RenderCell(m, layer_name, xs[k], y) \o RenderRow(m, layer_name, xs, k + 1, y)

\* the y loop of render_tiles from the k-th value of ys on
RECURSIVE RenderRows(_, _, _, _, _)
RenderRows(m, layer_name, xs, ys, k) ==
    IF k > Len(ys) THEN <<>>
    ELSE IF ~(0 <= ys[k] /\ ys[k] < m.height)
         THEN RenderRows(m, layer_name, xs, ys, k + 1)
    ELSE RenderRow(m, layer_name, xs, 1, ys[k])
         \o RenderRows(m, layer_name, xs, ys, k + 1)

\* render_tiles skips the layer: overhead when it is not asked for, a layer
\* the map does not have, an invisible layer
LayerSkipped(m, layer_name, include_overhead) ==
    \/ ~include_overhead /\ layer_name = "overhead"
    \/ layer_name \notin DOMAIN m.layers
    \/ ~m.layers[layer_name].visible

\* the layer loop of render_tiles from the k-th name of LAYER_ORDER on
RECURSIVE RenderLayers(_, _, _, _, _)
RenderLayers(m, xs, ys, include_overhead, k) ==
    IF k > Len(LAYER_ORDER) THEN <<>>
    ELSE IF LayerSkipped(m, LAYER_ORDER[k], include_overhead)
         THEN RenderLayers(m, xs, ys, include_overhead, k + 1)
    ELSE RenderRows(m, LAYER_ORDER[k], xs, ys, 1)
         \o RenderLayers(m, xs, ys, include_overhead, k + 1)

\* MapRenderer(map).render_tiles
render_tiles(m, view_x, view_y, view_w, view_h, include_overhead) ==
    RenderLayers(m, Range(view_x, view_w), Range(view_y, view_h), include_overhead, 1)

----------------------------------------------------------------------------
(* The interaction resolver (engine/interactions.py).                      *)

FACING_OFFSETS ==
    [north |-> <<0, -1>>, south |-> <<0, 1>>, west |-> <<-1, 0>>, east |-> <<1, 0>>]

\* get_facing_tile with the offset looked up under "south" for a facing
\* that has none
get_facing_tile_default_south(p) ==
    LET d == IF p.facing \in DOMAIN FACING_OFFSETS
             THEN FACING_OFFSETS[p.facing] ELSE FACING_OFFSETS["south"]
    IN <<p.x + d[1], p.y + d[2]>>

\* get_facing_tile
get_facing_tile(p) ==
    LET d == IF p.facing \in DOMAIN FACING_OFFSETS
             THEN FACING_OFFSETS[p.facing] ELSE <<0, -1>>
    IN <<p.x + d[1], p.y + d[2]>>

\* the entity interact resolves: its position in m.entities, 0 for None
InteractEntity(m, p) ==
    LET target == get_facing_tile(p)
    IN get_entity_at(m, target[1], target[2], Types(<<"door", "npc", "sign">>)).entity

\* the door branch of interact without the test of props.locked
DoorResultNeverLocked(props) ==
    InteractionResult(None, Get(props, "target_map", None),
                      Get(props, "target_spawn", None))

\* the door branch of interact; props.locked is a JSON boolean, and absent
\* it is None, which is as false as false
DoorResult(props) ==
    IF Get(props, "locked", FALSE)
    THEN InteractionResult(Get(props, "locked_message", "It's locked."), None, None)
    ELSE InteractionResult(None, Get(props, "target_map", None),
                           Get(props, "target_spawn", None))

\* interact that leaves the target of a locked door beside its message
interact_keeps_target(m, p) ==
    LET i == InteractEntity(m, p)
    IN IF i = 0 THEN InteractionResult(None, None, None)
       ELSE LET entity == m.entities[i]
            IN CASE entity.type = "door" ->
                      [DoorResult(entity.props) EXCEPT
                         !.transition_map = Get(entity.props, "target_map", None),
                         !.transition_spawn = Get(entity.props, "target_spawn", None)]
                 [] entity.type = "npc" ->
                      InteractionResult(
                          "NPC says (" \o Get(entity.props, "dialogue_id", "...") \o ").",
                          None, None)
                 [] entity.type = "sign" ->
                      InteractionResult(Get(entity.props, "text", ""), None, None)
                 [] OTHER -> InteractionResult(None, None, None)

\* interact
interact(m, p) ==
    LET i == InteractEntity(m, p)
    IN IF i = 0 THEN InteractionResult(None, None, None)
       ELSE LET entity == m.entities[i]
            IN CASE entity.type = "door" -> DoorResult(entity.props)
                 [] entity.type = "npc" ->
                      InteractionResult(
                          "NPC says (" \o Get(entity.props, "dialogue_id", "...") \o ").",
                          None, None)
                 [] entity.type = "sign" ->
                      InteractionResult(Get(entity.props, "text", ""), None, None)
                 [] OTHER -> InteractionResult(None, None, None)

\* the first trigger over the player's tile whose action is "message", and
\* the first trigger over it when there is none
TriggerEntityWithMessage(m, p) ==
    LET first == get_entity_at(m, p.x, p.y, Types(<<"trigger">>)).entity
        speaking == {i \in DOMAIN m.entities :
                        /\ m.entities[i].type = "trigger"
                        /\ covers_tile(m.entities[i], p.x, p.y)
                        /\ Get(Get(m.entities[i].props, "on_enter", [keys |-> {}]),
                               "action", None) = "message"}
    IN IF speaking = {} THEN first
       ELSE CHOOSE i \in speaking : \A j \in speaking : i <= j

\* the entity check_trigger looks at: its position in m.entities, 0 for None
TriggerEntity(m, p) == get_entity_at(m, p.x, p.y, Types(<<"trigger">>)).entity

\* check_trigger looking at the tile the player faces
check_trigger_facing_tile(m, p) ==
    LET target == get_facing_tile(p)
        i == get_entity_at(m, target[1], target[2], Types(<<"trigger">>)).entity
    IN IF i = 0 THEN NoResult
       ELSE LET on_enter == Get(m.entities[i].props, "on_enter", [keys |-> {}])
            IN IF Get(on_enter, "action", None) = "message"
               THEN InteractionResult(Get(on_enter, "text", ""), None, None)
               ELSE NoResult

\* check_trigger
check_trigger(m, p) ==
    LET i == TriggerEntity(m, p)
    IN IF i = 0 THEN NoResult
       ELSE LET on_enter == Get(m.entities[i].props, "on_enter", [keys |-> {}])
            IN IF Get(on_enter, "action", None) = "message"
               THEN InteractionResult(Get(on_enter, "text", ""), None, None)
               ELSE NoResult

----------------------------------------------------------------------------
(* MapLoader.load_map (engine/map_loader.py).                              *)

REQUIRED_FIELDS ==
    {"format", "name", "tile_size", "width", "height", "tileset", "layers", "entities"}

\* the errors load_map raises, named as the specification names them
MissingFieldError         == "Map missing required fields"
UnsupportedFormatError    == "Unsupported map format"
TileSizeMismatchError     == "Map tile_size does not match tileset tile_size"
UnsupportedLayerTypeError == "Unsupported layer type"
MissingLayerNameError     == "Layer missing name"
LayerSizeMismatchError    == "Layer has length; expected"
MissingEntityIdError      == "Entity missing id"
DuplicateEntityIdError    == "Duplicate entity id"

\* the check of one layer record without the check of its length
LayerCheckNoLength(data, layer) ==
    IF Get(layer, "type", None) # "tile" THEN UnsupportedLayerTypeError
    ELSE IF ~Truthy(Get(layer, "name", None)) THEN MissingLayerNameError
    ELSE ""

\* the check of one layer record: the error it raises, "" when it passes
LayerCheck(data, layer) ==
    IF Get(layer, "type", None) # "tile" THEN UnsupportedLayerTypeError
    ELSE IF ~Truthy(Get(layer, "name", None)) THEN MissingLayerNameError
    ELSE IF Len(Get(layer, "data", <<>>)) # data.width * data.height
         THEN LayerSizeMismatchError
    ELSE ""

\* the loop over data["layers"], after its first k records: the error raised
\* so far and the layers dict built so far
RECURSIVE LayerLoop(_, _)
LayerLoop(data, k) ==
    IF k = 0 THEN [err |-> "", layers |-> EmptyDict]
    ELSE LET before == LayerLoop(data, k - 1)
             layer == data.layers[k]
             err == LayerCheck(data, layer)
         IN IF before.err # "" THEN before
            ELSE IF err # "" THEN [err |-> err, layers |-> before.layers]
            ELSE [err |-> "",
                  layers |-> (layer.name :> [name |-> layer.name,
                                             data |-> Get(layer, "data", <<>>),
                                             visible |-> Get(layer, "visible", TRUE)])
                             @@ before.layers]

\* the check of one entity record that lets an id repeat
EntityCheckNoDuplicate(entity, entity_ids) ==
    IF ~Truthy(Get(entity, "id", None)) THEN MissingEntityIdError
    ELSE IF ~(FromDictKeys \subseteq entity.keys) THEN "KeyError"
    ELSE ""

\* the check of one entity record against the ids seen so far: the error it
\* raises, "" when it passes (KeyError is raised by Entity.from_dict)
EntityCheck(entity, entity_ids) ==
    IF ~Truthy(Get(entity, "id", None)) THEN MissingEntityIdError
    ELSE IF Get(entity, "id", None) \in entity_ids THEN DuplicateEntityIdError
    ELSE IF ~(FromDictKeys \subseteq entity.keys) THEN "KeyError"
    ELSE ""

\* the loop over data["entities"], after its first k records: the error
\* raised so far, the entities list and the set of ids seen
RECURSIVE EntityLoop(_, _)
EntityLoop(data, k) ==
    IF k = 0 THEN [err |-> "", entities |-> <<>>, entity_ids |-> {}]
    ELSE LET before == EntityLoop(data, k - 1)
             entity == data.entities[k]
             err == EntityCheck(entity, before.entity_ids)
         IN IF before.err # "" THEN before
            ELSE IF err # "" THEN [before EXCEPT !.err = err]
            ELSE [err |-> "",
                  entities |-> Append(before.entities, from_dict(entity)),
                  entity_ids |-> before.entity_ids \cup {entity.id}]

\* the header checks with the format compared before the fields are counted
HeaderCheckFormatFirst(data) ==
    IF data.format # "TWF_MAP_V1" THEN UnsupportedFormatError
    ELSE IF REQUIRED_FIELDS \ data.keys # {} THEN MissingFieldError
    ELSE IF data.tileset \notin DOMAIN TilesetDocs THEN "FileNotFoundError"
    ELSE IF data.tile_size # load_tileset(data.tileset).tile_size
         THEN TileSizeMismatchError
    ELSE ""

\* the header checks with the tile size compared before the format
HeaderCheckTileSizeFirst(data) ==
    IF REQUIRED_FIELDS \ data.keys # {} THEN MissingFieldError
    ELSE IF data.tileset \notin DOMAIN TilesetDocs THEN "FileNotFoundError"
    ELSE IF data.tile_size # load_tileset(data.tileset).tile_size
         THEN TileSizeMismatchError
    ELSE IF data.format # "TWF_MAP_V1" THEN UnsupportedFormatError
    ELSE ""

\* the header checks without the comparison of the tile sizes
HeaderCheckNoTileSize(data) ==
    IF REQUIRED_FIELDS \ data.keys # {} THEN MissingFieldError
    ELSE IF data.format # "TWF_MAP_V1" THEN UnsupportedFormatError
    ELSE IF data.tileset \notin DOMAIN TilesetDocs THEN "FileNotFoundError"
    ELSE ""

\* the checks of load_map that come before the layers: the error raised,
\* "" when they pass
HeaderCheck(data) ==
    IF REQUIRED_FIELDS \ data.keys # {} THEN MissingFieldError
    ELSE IF data.format # "TWF_MAP_V1" THEN UnsupportedFormatError
    ELSE IF data.tileset \notin DOMAIN TilesetDocs THEN "FileNotFoundError"
    ELSE IF data.tile_size # load_tileset(data.tileset).tile_size
         THEN TileSizeMismatchError
    ELSE ""

\* MapLoader.load_map: the error raised ("" for none) and the MapData
load_map(data) ==
    IF HeaderCheck(data) # "" THEN [err |-> HeaderCheck(data), map |-> NoMap]
    ELSE LET layers == LayerLoop(data, Len(data.layers))
             entities == EntityLoop(data, Len(data.entities))
         IN IF layers.err # "" THEN [err |-> layers.err, map |-> NoMap]
            ELSE IF entities.err # "" THEN [err |-> entities.err, map |-> NoMap]
            ELSE [err |-> "",
                  map |-> [name |-> data.name,
                           width |-> data.width,
                           height |-> data.height,
                           tile_size |-> data.tile_size,
                           tileset |-> load_tileset(data.tileset),
                           layers |-> layers.layers,
                           entities |-> entities.entities]]

----------------------------------------------------------------------------
(* The driving loop (tools/test_harness.py).                               *)

\* the loop of find_spawn from the i-th entity on: the position in
\* m.entities of the spawn returned, 0 when the loop ends without one
RECURSIVE FindSpawnLoop(_, _, _)
FindSpawnLoop(m, spawn_id, i) ==
    IF i > Len(m.entities) THEN 0
    ELSE IF m.entities[i].type = "spawn" /\ m.entities[i].id = spawn_id THEN i
    ELSE FindSpawnLoop(m, spawn_id, i + 1)

\* find_spawn returning the first spawn of the map when none has the id
find_spawn_or_first(m, spawn_id) ==
    LET spawns == {k \in 1..Len(m.entities) : m.entities[k].type = "spawn"}
    IN IF FindSpawnLoop(m, spawn_id, 1) # 0 \/ spawns = {}
       THEN FindSpawnLoop(m, spawn_id, 1)
       ELSE CHOOSE k \in spawns : \A l \in spawns : k <= l

\* find_spawn; 0 stands for the ValueError it raises
find_spawn(m, spawn_id) == FindSpawnLoop(m, spawn_id, 1)

\* loader.load_map(name) on the documents under data/maps
load_map_named(maps, name) ==
    IF name \notin DOMAIN maps THEN [err |-> "FileNotFoundError", map |-> NoMap]
    ELSE load_map(maps[name])

\* a line the loop prints, with the statement that printed it
Line(kind, text) == [kind |-> kind, text |-> text]

\* the facing and the offset of the four move commands
MoveOffsets ==
    [w |-> <<"north", 0, -1>>, s |-> <<"south", 0, 1>>,
     a |-> <<"west", -1, 0>>, d |-> <<"east", 1, 0>>]

\* the move branch of the loop with check_trigger called after the
\* collision test, whatever the test said
MoveOutcomeAlwaysChecks(m, p, command) ==
    LET o == MoveOffsets[command]
        new_x == p.x + o[2]
        new_y == p.y + o[3]
        turned == [p EXCEPT !.facing = o[1]]
        solid == is_solid(m, new_x, new_y)
        stepped == IF solid.flag THEN turned
                   ELSE [turned EXCEPT !.x = new_x, !.y = new_y]
        trigger_result == check_trigger(m, stepped)
    IN [player |-> stepped, moved |-> ~solid.flag, raised |-> solid.raised,
        checks |-> <<<<stepped.x, stepped.y>>>>,
        printed |-> (IF solid.flag THEN <<Line("bump", "Bump! That's solid.")>> ELSE <<>>)
                    \o (IF ~trigger_result.none /\ Truthy(trigger_result.message)
                        THEN <<Line("trigger", trigger_result.message)>> ELSE <<>>)]

\* the move branch of the loop without the collision test
MoveOutcomeNoCollision(m, p, command) ==
    LET o == MoveOffsets[command]
        stepped == [p EXCEPT !.facing = o[1], !.x = p.x + o[2], !.y = p.y + o[3]]
        trigger_result == check_trigger(m, stepped)
    IN [player |-> stepped, moved |-> TRUE, raised |-> "",
        checks |-> <<<<stepped.x, stepped.y>>>>,
        printed |-> IF ~trigger_result.none /\ Truthy(trigger_result.message)
                    THEN <<Line("trigger", trigger_result.message)>> ELSE <<>>]

\* the move branch of the loop with the facing set by a committed step only
MoveOutcomeTurnsOnStep(m, p, command) ==
    LET o == MoveOffsets[command]
        new_x == p.x + o[2]
        new_y == p.y + o[3]
        solid == is_solid(m, new_x, new_y)
    IN IF solid.raised # ""
       THEN [player |-> p, moved |-> FALSE, raised |-> solid.raised,
             checks |-> <<>>, printed |-> <<>>]
       ELSE IF ~solid.flag
       THEN LET stepped == [p EXCEPT !.facing = o[1], !.x = new_x, !.y = new_y]
                trigger_result == check_trigger(m, stepped)
            IN [player |-> stepped, moved |-> TRUE, raised |-> "",
                checks |-> <<<<new_x, new_y>>>>,
                printed |-> IF ~trigger_result.none /\ Truthy(trigger_result.message)
                            THEN <<Line("trigger", trigger_result.message)>>
                            ELSE <<>>]
       ELSE [player |-> p, moved |-> FALSE, raised |-> "",
             checks |-> <<>>,
             printed |-> <<Line("bump", "Bump! That's solid.")>>]

\* the move branch of the loop (commands w, a, s, d): the player after it,
\* whether the step was committed, the tiles check_trigger was called at
\* and the lines printed
MoveOutcome(m, p, command) ==
    LET o == MoveOffsets[command]
        new_x == p.x + o[2]
        new_y == p.y + o[3]
        turned == [p EXCEPT !.facing = o[1]]
        solid == is_solid(m, new_x, new_y)
    IN IF solid.raised # ""
       THEN [player |-> turned, moved |-> FALSE, raised |-> solid.raised,
             checks |-> <<>>, printed |-> <<>>]
       ELSE IF ~solid.flag
       THEN LET stepped == [turned EXCEPT !.x = new_x, !.y = new_y]
                trigger_result == check_trigger(m, stepped)
            IN [player |-> stepped, moved |-> TRUE, raised |-> "",
                checks |-> <<<<new_x, new_y>>>>,
                printed |-> IF ~trigger_result.none /\ Truthy(trigger_result.message)
                            THEN <<Line("trigger", trigger_result.message)>>
                            ELSE <<>>]
       ELSE [player |-> turned, moved |-> FALSE, raised |-> "",
             checks |-> <<>>,
             printed |-> <<Line("bump", "Bump! That's solid.")>>]

\* the transition of the interact branch: the error raised, the current
\* map and the player after it
TransitionOutcome(maps, m, p, result) ==
    LET r == load_map_named(maps, result.transition_map)
    IN IF r.err # "" THEN [raised |-> r.err, map |-> m, player |-> p]
       ELSE LET i == find_spawn(r.map, result.transition_spawn)
            IN IF i = 0 THEN [raised |-> "ValueError", map |-> r.map, player |-> p]
               ELSE LET spawn == r.map.entities[i]
                    IN [raised |-> "", map |-> r.map,
                        player |-> PlayerState(spawn.x, spawn.y,
                                               Get(spawn.props, "facing", "south"))]

----------------------------------------------------------------------------
(* The map documents the model draws.                                      *)

\* a map document with all eight fields, the supported format and the
\* tileset's tile size, MaxW tiles wide and MaxH tiles high
Document(layers, entities) ==
    [keys |-> REQUIRED_FIELDS,
     format |-> "TWF_MAP_V1",
     name |-> "Hearthvale_Town",
     tile_size |-> 16,
     width |-> MaxW,
     height |-> MaxH,
     tileset |-> "overworld_tileset_v1",
     layers |-> layers,
     entities |-> entities]

Cells == MaxW * MaxH

\* a grid that holds `tile` at row-major position `at` and 0 elsewhere
Grid(at, tile) == [i \in 1..Cells |-> IF i = at THEN tile ELSE 0]

\* a layer record; "visible" is left out of the record when it is true
LayerRecord(name, data, visible) ==
    [keys |-> {"name", "type", "data"} \cup (IF visible THEN {} ELSE {"visible"}),
     type |-> "tile", name |-> name, data |-> data, visible |-> visible]

LayerNames == <<"ground", "details", "structures", "overhead", "collision", "fog">>

\* what a layer holds at the marked cell: nothing, the solid tile 1, the
\* walkable tile 2, the tile 3 the tileset does not know; or it is invisible
\* and holds the solid tile
LayerChoices ==
    {[visible |-> TRUE, tile |-> t] : t \in 0..3} \cup {[visible |-> FALSE, tile |-> 1]}

\* the cells marked: the last of the first row, the first of the last row
MarkedCells == {MaxW, (MaxH - 1) * MaxW + 1}

\* documents that differ in their layers: up to MaxLayers layers of any names
TileDocuments ==
    UNION { UNION { { Document(
                        LET names == SelectSeq(LayerNames, LAMBDA n : n \in S)
                        IN [i \in 1..Len(names) |->
                              LayerRecord(names[i], Grid(at, c[names[i]].tile),
                                          c[names[i]].visible)],
                        <<>>)
                      : at \in MarkedCells }
                    : c \in [S -> LayerChoices] }
            : S \in {T \in SUBSET {LayerNames[i] : i \in 1..Len(LayerNames)} :
                        Cardinality(T) <= MaxLayers} }

EntityIds == <<"a", "b", "c", "d">>

\* an entity record; "h" is always left to its default
EntityRecord(id, type, x, y, w) ==
    [keys |-> {"id", "type", "x", "y", "w"},
     id |-> id, type |-> type, x |-> x, y |-> y, w |-> w, h |-> 1,
     props |-> [keys |-> {}]]

EntityChoices ==
    [type : {"door", "trigger", "chest"}, x : {0, MaxW - 1}, w : 1..2]

\* documents that differ in their entities: up to MaxEntities entities with
\* distinct ids, on a map with an empty ground layer
EntityDocuments ==
    UNION { { Document(
                <<LayerRecord("ground", Grid(0, 0), TRUE)>>,
                [i \in 1..n |-> EntityRecord(EntityIds[i], c[i].type, c[i].x, 0, c[i].w)])
              : c \in [1..n -> EntityChoices] }
            : n \in 0..MaxEntities }

\* the layer records of the documents the loader is tried on: a good one,
\* and ones with another type, no name, data one tile short, no data, and
\* both another type and short data
LayerKinds ==
    LET good == LayerRecord("ground", Grid(0, 0), TRUE)
        short == [i \in 1..(Cells - 1) |-> 0]
    IN {good,
        [good EXCEPT !.type = "object"],
        [good EXCEPT !.keys = @ \ {"name"}],
        [good EXCEPT !.data = short],
        [good EXCEPT !.keys = @ \ {"data"}],
        [good EXCEPT !.type = "object", !.data = short]}

\* the entity records of those documents: ids "a" and "b", no id, an empty
\* id, id "a" without a type, id "c" no tile wide, and id "d" of height -1
EntityKinds ==
    LET good == EntityRecord("a", "door", 0, 0, 1)
    IN {good,
        [good EXCEPT !.id = "b", !.x = 1],
        [good EXCEPT !.keys = @ \ {"id"}],
        [good EXCEPT !.id = ""],
        [good EXCEPT !.keys = @ \ {"type"}],
        [good EXCEPT !.id = "c", !.w = 0],
        [good EXCEPT !.id = "d", !.keys = @ \cup {"h"}, !.h = -1]}

SeqsUpTo(S, n) == UNION {[1..k -> S] : k \in 0..n}

\* the layer lists and entity lists of those documents: every list of layer
\* kinds with a good or a twice-used id list, and every list of entity kinds
\* with a good or a short layer
LoaderBodies ==
    LET good == EntityRecord("a", "door", 0, 0, 1)
    IN (SeqsUpTo(LayerKinds, MaxLayers) \X {<<>>, <<good, good>>})
       \cup ({ <<l>> : l \in {LayerRecord("ground", Grid(0, 0), TRUE),
                              LayerRecord("ground", [i \in 1..(Cells - 1) |-> 0], TRUE)} }
             \X SeqsUpTo(EntityKinds, MaxEntities))

\* documents that declare a width or a height of 0 or -1, with one layer
\* whose data holds no tile, one tile, or MaxW * MaxH tiles
SizeDocuments ==
    { [Document(<<LayerRecord("ground", data, TRUE)>>, <<>>)
         EXCEPT !.width = width, !.height = height]
      : width \in {-1, 0, MaxW}, height \in {-1, 0, MaxH},
        data \in {<<>>, <<0>>, Grid(0, 0)} }

\* documents that differ in what load_map checks: at most one required field
\* missing, the format, the tile size, the layers and the entities, and the
\* size declared
LoaderDocuments ==
    SizeDocuments \cup
    { [Document(b[1], b[2]) EXCEPT !.keys = REQUIRED_FIELDS \ missing,
                                   !.format = format,
                                   !.tile_size = tile_size]
      : missing \in {{}} \cup {{f} : f \in REQUIRED_FIELDS},
        format \in {"TWF_MAP_V1", "TWF_MAP_V2"},
        tile_size \in {16, 32},
        b \in LoaderBodies }

\* what a layer holds in the documents the renderer is tried on: tile 1
\* everywhere, tiles 2 and 1 in turn, tile 2 everywhere but in the first
\* cell, nothing; or it is invisible and holds tile 1 everywhere
RenderChoices ==
    {[visible |-> TRUE, data |-> [i \in 1..Cells |-> 1]],
     [visible |-> TRUE, data |-> [i \in 1..Cells |-> 1 + (i % 2)]],
     [visible |-> TRUE, data |-> [i \in 1..Cells |-> IF i = 1 THEN 0 ELSE 2]],
     [visible |-> TRUE, data |-> [i \in 1..Cells |-> 0]],
     [visible |-> FALSE, data |-> [i \in 1..Cells |-> 1]]}

RenderNames == <<"fog", "overhead", "structures", "details", "ground">>

\* documents that differ in what the renderer draws: up to MaxLayers
\* layers, listed against the drawing order
RenderDocuments ==
    UNION { { Document(
                LET names == SelectSeq(RenderNames, LAMBDA n : n \in S)
                IN [i \in 1..Len(names) |->
                      LayerRecord(names[i], c[names[i]].data, c[names[i]].visible)],
                <<>>)
              : c \in [S -> RenderChoices] }
            : S \in {T \in SUBSET {RenderNames[i] : i \in 1..Len(RenderNames)} :
                        Cardinality(T) <= MaxLayers} }

\* an entity record with a size and props
PropsRecord(id, type, x, y, w, h, props) ==
    [keys |-> {"id", "type", "x", "y", "w", "h", "props"},
     id |-> id, type |-> type, x |-> x, y |-> y, w |-> w, h |-> h, props |-> props]

\* the props of a door: locked with and without a message of its own, and
\* not locked with a target map and spawn, the spawn left out in the last
DoorProps ==
    LET full == [keys |-> {"locked", "locked_message", "target_map", "target_spawn"},
                 locked |-> TRUE, locked_message |-> "The door is barred.",
                 target_map |-> "Hearthvale_Inn", target_spawn |-> "spawn_inn_door"]
    IN {full,
        [full EXCEPT !.keys = @ \ {"locked_message"}],
        [full EXCEPT !.locked = FALSE],
        [full EXCEPT !.keys = {"target_map"}]}

\* the props of a trigger: a message with and without its text, another
\* action, and no on_enter
TriggerProps ==
    LET on_enter == [keys |-> {"action", "text"}, action |-> "message",
                     text |-> "You feel a chill."]
        full == [keys |-> {"on_enter"}, on_enter |-> on_enter]
    IN {full,
        [full EXCEPT !.on_enter.keys = {"action"}],
        [full EXCEPT !.on_enter.action = "teleport"],
        [full EXCEPT !.keys = {}]}

\* the entities interact and check_trigger are tried on, as type and props
InteractKinds ==
    ({"door"} \X DoorProps)
    \cup ({"npc"} \X {[keys |-> {"dialogue_id"}, dialogue_id |-> "innkeeper"],
                      [keys |-> {}]})
    \cup ({"sign"} \X {[keys |-> {"text"}, text |-> "Welcome to Hearthvale."],
                       [keys |-> {}]})
    \cup ({"trigger"} \X TriggerProps)
    \cup ({"spawn", "chest"} \X {[keys |-> {}]})

\* the entities that follow the first one in those documents
FollowerKinds ==
    {<<"sign", [keys |-> {"text"}, text |-> "Mind the step."]>>,
     <<"npc", [keys |-> {"dialogue_id"}, dialogue_id |-> "guard"]>>,
     <<"trigger", [keys |-> {"on_enter"},
                   on_enter |-> [keys |-> {"action", "text"}, action |-> "message",
                                 text |-> "A draft blows in."]]>>}

\* documents that differ in what the resolver looks at: a first entity of
\* any kind, one or two tiles wide or high, followed by up to
\* MaxEntities - 1 one-tile entities, on a map with an empty ground layer
InteractDocuments ==
    {Document(<<LayerRecord("ground", Grid(0, 0), TRUE)>>, <<>>)}
    \cup
    UNION { { Document(
                <<LayerRecord("ground", Grid(0, 0), TRUE)>>,
                <<PropsRecord(EntityIds[1], k[1], x, 0, size[1], size[2], k[2])>>
                \o [i \in 1..n |->
                      PropsRecord(EntityIds[i + 1], f[i][1][1], f[i][2], 0, 1, 1, f[i][1][2])])
              : k \in InteractKinds, x \in {0, MaxW - 1},
                size \in {<<1, 1>>, <<2, 1>>, <<1, 2>>},
                f \in [1..n -> FollowerKinds \X {0, MaxW - 1}] }
            : n \in 0..(MaxEntities - 1) }

\* the props of the town's door: those of DoorProps, and not locked with a
\* spawn id the inn does not have, and with a map that is not on disk
TownDoorProps ==
    LET open == [keys |-> {"target_map", "target_spawn"},
                 target_map |-> "Hearthvale_Inn", target_spawn |-> "spawn_cellar"]
    IN DoorProps \cup {open, [open EXCEPT !.target_map = "Hearthvale_Mill"]}

\* the town: one solid cell (none for at = 0) on the ground layer or on a
\* collision layer, the spawn of the south gate in the bottom left corner,
\* a door in the top right corner and a trigger along the top row
TownDocument(at, collision, door, trigger) ==
    Document(
        IF collision
        THEN <<LayerRecord("ground", Grid(0, 0), TRUE),
               LayerRecord("collision", Grid(at, 2), TRUE)>>
        ELSE <<LayerRecord("ground", Grid(at, 1), TRUE)>>,
        <<PropsRecord("spawn_south_gate", "spawn", 0, MaxH - 1, 1, 1, [keys |-> {}]),
          PropsRecord("door_inn", "door", MaxW - 1, 0, 1, 1, door),
          PropsRecord("trigger_gate", "trigger", 0, 0, 2, 1, trigger)>>)

\* the inn: two spawns, the one at the door listed second, and a door back
\* to the town
InnDocument ==
    [Document(
        <<LayerRecord("ground", Grid(0, 0), TRUE)>>,
        <<PropsRecord("spawn_inn_bed", "spawn", MaxW - 1, MaxH - 1, 1, 1, [keys |-> {}]),
          PropsRecord("spawn_inn_door", "spawn", 0, 0, 1, 1,
                      [keys |-> {"facing"}, facing |-> "east"]),
          PropsRecord("door_town", "door", 0, MaxH - 1, 1, 1,
                      [keys |-> {"target_map", "target_spawn"},
                       target_map |-> "Hearthvale_Town",
                       target_spawn |-> "spawn_south_gate"])>>)
     EXCEPT !.name = "Hearthvale_Inn"]

\* where the town's solid cell lies: nowhere, or in a corner of the map
SolidCells == {0, 1, MaxW, (MaxH - 1) * MaxW + 1, Cells}

\* the documents under data/maps the driving loop is run on
Worlds ==
    { [Hearthvale_Town |-> TownDocument(at, collision, door, trigger),
       Hearthvale_Inn |-> InnDocument]
      : at \in SolidCells, collision \in BOOLEAN,
        door \in TownDoorProps, trigger \in TriggerProps }

\* documents for the whole query surface: a ground layer alone, under an
\* overhead layer, or beside a collision layer, and no entity, a door of
\* any kind, or a locked door listed after a trigger
SurfaceDocuments ==
    { Document(layers, entities)
      : layers \in {<<LayerRecord("ground", Grid(1, 1), TRUE)>>,
                    <<LayerRecord("ground", Grid(1, 2), TRUE),
                      LayerRecord("overhead", Grid(Cells, 1), TRUE)>>,
                    <<LayerRecord("ground", Grid(1, 1), TRUE),
                      LayerRecord("collision", Grid(Cells, 2), TRUE)>>},
        entities \in {<<>>}
                     \cup {<<PropsRecord("a", "door", 0, 0, 1, 1, d)>> : d \in DoorProps}
                     \cup {<<PropsRecord("a", "trigger", 0, 0, 2, 1, t),
                             PropsRecord("b", "door", MaxW - 1, 0, 1, 1, d)>>
                           : t \in TriggerProps,
                             d \in {e \in DoorProps : e.locked /\ "locked" \in e.keys}} }

----------------------------------------------------------------------------
(* The map generator (tools/generate_maps.py).                             *)

TILES ==
    [empty |-> 0, grass |-> 1, road |-> 2, dirt |-> 3, water |-> 4, fence |-> 5,
     wall |-> 6, roof |-> 7, door |-> 8, path_edge |-> 9, plaza |-> 10,
     flower |-> 11, tree_trunk |-> 12, tree_canopy |-> 13, bridge |-> 14,
     statue |-> 15, grass_variant |-> 16, interior_floor |-> 20,
     interior_wall |-> 21, interior_rug |-> 22, cathedral_wall |-> 23,
     cathedral_roof |-> 24, cathedral_steps |-> 25]

\* blank_layer with a square of the width for the rectangle
blank_layer_square(width, height, fill) == [i \in 1..(width * width) |-> fill]
blank_layer(width, height, fill) == [i \in 1..(width * height) |-> fill]

\* layer[index(width, x, y)] = tile_id
put(layer, width, x, y, tile_id) == [layer EXCEPT ![y * width + x + 1] = tile_id]

\* fill_rect, for a rectangle that lies on the map
fill_rect(layer, width, x, y, w, h, tile_id) ==
    LET filled == [i \in 1..Len(layer) |->
                     LET xx == (i - 1) % width
                         yy == (i - 1) \div width
                     IN IF x <= xx /\ xx < x + w /\ y <= yy /\ yy < y + h
                        THEN tile_id ELSE layer[i]]
    IN SubSeq(filled, 1, Len(layer))

\* outline_rect, for a rectangle that lies on the map
outline_rect(layer, width, x, y, w, h, tile_id) ==
    LET outlined == [i \in 1..Len(layer) |->
                       LET xx == (i - 1) % width
                           yy == (i - 1) \div width
                       IN IF \/ x <= xx /\ xx < x + w /\ yy \in {y, y + h - 1}
                             \/ y <= yy /\ yy < y + h /\ xx \in {x, x + w - 1}
                          THEN tile_id ELSE layer[i]]
    IN SubSeq(outlined, 1, Len(layer))

\* place_building; b is the building's (x, y, w, h), and the caller names
\* the wall and the roof tile that are the defaults
place_building(layers, width, b, door_x, wall_tile, roof_tile) ==
    [layers EXCEPT
       !.structures = put(outline_rect(@, width, b[1], b[2], b[3], b[4], wall_tile),
                          width, door_x, b[2] + b[4] - 1, TILES.door),
       !.overhead = fill_rect(@, width, b[1], b[2], b[3], b[4], roof_tile)]

add_tree(layers, width, x, y) ==
    [layers EXCEPT !.structures = put(@, width, x, y, TILES.tree_trunk),
                   !.overhead = put(@, width, x, y - 1, TILES.tree_canopy)]

\* an entity record as the generator writes it: no "w" and no "h"
entity_record(id, type, x, y, props) ==
    [keys |-> {"id", "type", "x", "y", "props"},
     id |-> id, type |-> type, x |-> x, y |-> y, w |-> 1, h |-> 1, props |-> props]

\* the props the generator gives to an npc
npc_props(sprite_name, facing, dialogue_id) ==
    [keys |-> {"sprite", "facing", "dialogue_id"},
     sprite |-> sprite_name, facing |-> facing, dialogue_id |-> dialogue_id]

\* the document both generators return
map_document(name, width, height, layers, entities) ==
    [keys |-> REQUIRED_FIELDS,
     format |-> "TWF_MAP_V1",
     name |-> name,
     tile_size |-> 16,
     width |-> width,
     height |-> height,
     tileset |-> "overworld_tileset_v1",
     layers |->
        [i \in 1..4 |->
            LET layer == <<"ground", "details", "structures", "overhead">>[i]
            IN [keys |-> {"name", "type", "data"}, name |-> layer, type |-> "tile",
                data |-> layers[layer], visible |-> TRUE]],
     entities |-> entities]

generate_town ==
    LET width == 128
        height == 128
        road_x == width \div 2 - 2
        plaza_x == 54
        plaza_y == 62
        plaza_w == 20
        plaza_h == 20
        inn == <<36, 52, 16, 12>>
        item_shop == <<24, 68, 10, 8>>
        weapon_shop == <<94, 68, 10, 8>>
        cathedral == <<50, 28, 28, 20>>
        fence_x == cathedral[1] - 3
        fence_y == cathedral[2] - 3
        fence_w == cathedral[3] + 6
        fence_h == cathedral[4] + 10
        gate_x == cathedral[1] + cathedral[3] \div 2
        steps_y == cathedral[2] + cathedral[4]
        houses == <<<<8, 20, 8, 6>>, <<104, 20, 8, 6>>, <<8, 48, 8, 6>>,
                    <<104, 48, 8, 6>>, <<8, 88, 8, 6>>, <<104, 88, 8, 6>>>>
        door_x(b) == b[1] + b[3] \div 2
        blank ==
            [ground |-> blank_layer(width, height, TILES.grass),
             details |-> blank_layer(width, height, TILES.empty),
             structures |-> blank_layer(width, height, TILES.empty),
             overhead |-> blank_layer(width, height, TILES.empty)]
        plaza ==
            [blank EXCEPT
               !.ground = fill_rect(fill_rect(@, width, plaza_x, plaza_y, plaza_w,
                                              plaza_h, TILES.plaza),
                                    width, road_x, plaza_y + plaza_h, 4,
                                    height - (plaza_y + plaza_h), TILES.road),
               !.details = fill_rect(@, width, width \div 2 - 2, plaza_y + 4, 4, 4,
                                     TILES.water)]
        shops ==
            place_building(
                place_building(
                    place_building(
                        place_building(plaza, width, inn, door_x(inn),
                                       TILES.wall, TILES.roof),
                        width, item_shop, door_x(item_shop), TILES.wall, TILES.roof),
                    width, weapon_shop, door_x(weapon_shop), TILES.wall, TILES.roof),
                width, cathedral, door_x(cathedral),
                TILES.cathedral_wall, TILES.cathedral_roof)
        grounds ==
            [shops EXCEPT
               !.structures =
                   put(put(put(put(outline_rect(@, width, fence_x, fence_y, fence_w,
                                                fence_h, TILES.fence),
                                   width, gate_x, fence_y + fence_h - 1, TILES.empty),
                               width, gate_x + 1, fence_y + fence_h - 1, TILES.empty),
                           width, cathedral[1] + 3, cathedral[2] + cathedral[4] + 1,
                           TILES.statue),
                       width, cathedral[1] + cathedral[3] - 4,
                       cathedral[2] + cathedral[4] + 1, TILES.statue),
               !.details = fill_rect(@, width, gate_x - 1, steps_y, 4, 2,
                                     TILES.cathedral_steps),
               !.ground = fill_rect(@, width, road_x, fence_y + fence_h, 4,
                                    plaza_y - (fence_y + fence_h), TILES.road)]
        housed[k \in 0..6] ==
            IF k = 0 THEN grounds
            ELSE place_building(housed[k - 1], width, houses[k], door_x(houses[k]),
                                TILES.wall, TILES.roof)
        \* range(20, 108, 8) at y = 110, then range(20, 108, 10) at y = 18
        trees == [k \in 1..20 |-> IF k <= 11 THEN <<20 + 8 * (k - 1), 110>>
                                  ELSE <<20 + 10 * (k - 12), 18>>]
        planted[k \in 0..20] ==
            IF k = 0 THEN housed[6]
            ELSE add_tree(planted[k - 1], width, trees[k][1], trees[k][2])
        layers ==
            [planted[20] EXCEPT
               !.details = put(put(put(put(@, width, 50, 78, TILES.flower),
                                       width, 72, 78, TILES.flower),
                                   width, 30, 72, TILES.flower),
                               width, 98, 72, TILES.flower)]
        exterior(id, b, target_map, target_spawn) ==
            entity_record(id, "door", door_x(b), b[2] + b[4] - 1,
                          [keys |-> {"target_map", "target_spawn", "transition"},
                           target_map |-> target_map, target_spawn |-> target_spawn,
                           transition |-> "fade"])
        exit(id, b) ==
            entity_record(id, "spawn", door_x(b), b[2] + b[4], [keys |-> {"facing"}, facing |-> "south"])
        wander(x) ==
            [keys |-> {"mode", "bounds", "speed"}, mode |-> "loop", speed |-> 1,
             bounds |-> [keys |-> {"x", "y", "w", "h"}, x |-> x, y |-> 86, w |-> 10, h |-> 8]]
        wanderer(sprite_name, facing, dialogue_id, x) ==
            [keys |-> {"sprite", "facing", "dialogue_id", "wander"},
             sprite |-> sprite_name, facing |-> facing, dialogue_id |-> dialogue_id,
             wander |-> wander(x)]
        house_entities[k \in 0..6] ==
            IF k = 0 THEN <<>>
            ELSE house_entities[k - 1] \o
                 <<exterior("door_house_0" \o IntToStr(k), houses[k],
                            "Hearthvale_House_0" \o IntToStr(k), "spawn_house_entry"),
                   exit("spawn_house_0" \o IntToStr(k) \o "_exit", houses[k])>>
        entities ==
            <<entity_record("spawn_south_gate", "spawn", width \div 2, 120,
                            [keys |-> {"facing"}, facing |-> "north"]),
              exterior("door_inn_exterior", inn, "Hearthvale_Inn", "spawn_inn_entry"),
              exterior("door_item_shop_exterior", item_shop,
                       "Hearthvale_ItemShop", "spawn_itemshop_entry"),
              exterior("door_weapon_shop_exterior", weapon_shop,
                       "Hearthvale_WeaponShop", "spawn_weaponshop_entry"),
              [exterior("door_cathedral_exterior", cathedral,
                        "Hearthvale_Cathedral", "spawn_cathedral_entry")
                 EXCEPT !.keys = @ \cup {"w"}, !.w = 2],
              exit("spawn_inn_exit", inn),
              exit("spawn_itemshop_exit", item_shop),
              exit("spawn_weaponshop_exit", weapon_shop),
              exit("spawn_cathedral_exit", cathedral)>>
            \o house_entities[6] \o
            <<entity_record("sign_inn", "sign", inn[1] - 2, inn[2] + inn[4] - 1,
                            [keys |-> {"text"},
                             text |-> "Hearthvale Inn - Warm beds and hot stew."]),
              entity_record("npc_greeter", "npc", width \div 2, 118,
                            npc_props("npc_villager_01", "south", "town_greeter")),
              entity_record("npc_guard_north", "npc", width \div 2, 14,
                            npc_props("npc_guard_01", "south", "north_gate_guard")),
              entity_record("npc_cathedral_attendant", "npc", door_x(cathedral) - 2,
                            cathedral[2] + cathedral[4] + 2,
                            npc_props("npc_cleric_01", "south", "cathedral_attendant")),
              entity_record("npc_wanderer_01", "npc", 60, 90,
                            wanderer("npc_villager_02", "east", "wanderer_one", 56)),
              entity_record("npc_wanderer_02", "npc", 70, 90,
                            wanderer("npc_villager_03", "west", "wanderer_two", 68)),
              entity_record("npc_innkeeper_outside", "npc", inn[1] + inn[3] - 2,
                            inn[2] + inn[4] + 1,
                            npc_props("npc_innkeeper_01", "south", "innkeeper_greeting")),
              entity_record("npc_item_shop", "npc", item_shop[1] + 2,
                            item_shop[2] + item_shop[4] + 1,
                            npc_props("npc_merchant_01", "south", "item_shop_pitch")),
              entity_record("npc_weapon_shop", "npc", weapon_shop[1] + weapon_shop[3] - 2,
                            weapon_shop[2] + weapon_shop[4] + 1,
                            npc_props("npc_blacksmith_01", "south", "weapon_shop_pitch")),
              entity_record("npc_house_neighbor_01", "npc", houses[1][1] + 3,
                            houses[1][2] + houses[1][4] + 1,
                            npc_props("npc_villager_04", "south", "neighbor_chat")),
              entity_record("npc_house_neighbor_02", "npc", houses[4][1] + 3,
                            houses[4][2] + houses[4][4] + 1,
                            npc_props("npc_villager_05", "south", "neighbor_chat_2")),
              entity_record("npc_plaza_kid", "npc", plaza_x + 3, plaza_y + 6,
                            npc_props("npc_child_01", "west", "plaza_kid")),
              [keys |-> {"id", "type", "x", "y", "w", "h", "props"},
               id |-> "trigger_north_exit_blocked", type |-> "trigger",
               x |-> width \div 2 - 2, y |-> 10, w |-> 4, h |-> 1,
               props |->
                  [keys |-> {"on_enter"},
                   on_enter |->
                      [keys |-> {"action", "text"}, action |-> "message",
                       text |-> "The northern pass is closed for now. The guard shakes his head."]]]>>
    IN map_document("Hearthvale_Town", width, height, layers, entities)

\* name.lower(), for the names main gives to the interiors
lower(name) ==
    CASE name = "Hearthvale_Inn" -> "hearthvale_inn"
      [] name = "Hearthvale_ItemShop" -> "hearthvale_itemshop"
      [] name = "Hearthvale_WeaponShop" -> "hearthvale_weaponshop"
      [] name = "Hearthvale_Cathedral" -> "hearthvale_cathedral"
      [] name \in {"Hearthvale_House_0" \o IntToStr(k) : k \in 1..6} ->
            "hearthvale_house_0" \o CHOOSE d \in {IntToStr(k) : k \in 1..6} :
                                       name = "Hearthvale_House_0" \o d

generate_interior(name, width, height, npc_id, spawn_id, return_map, return_spawn) ==
    LET door_x == width \div 2
        layers ==
            [ground |-> blank_layer(width, height, TILES.interior_floor),
             details |-> fill_rect(blank_layer(width, height, TILES.empty),
                                   width, 5, 4, 6, 3, TILES.interior_rug),
             structures |-> put(outline_rect(blank_layer(width, height, TILES.empty),
                                             width, 0, 0, width, height,
                                             TILES.interior_wall),
                                width, door_x, height - 1, TILES.door),
             overhead |-> blank_layer(width, height, TILES.empty)]
        spawn_key == IF Truthy(spawn_id) THEN spawn_id
                     ELSE "spawn_" \o lower(name) \o "_entry"
        entities ==
            <<entity_record(spawn_key, "spawn", width \div 2, height - 2,
                            [keys |-> {"facing"}, facing |-> "north"]),
              entity_record(npc_id, "npc", width \div 2, 4,
                            npc_props("npc_interior_01", "south",
                                      lower(name) \o "_greeting")),
              entity_record("door_exit_" \o lower(name), "door", door_x, height - 1,
                            [keys |-> {"target_map", "target_spawn", "transition"},
                             target_map |-> return_map, target_spawn |-> return_spawn,
                             transition |-> "fade"])>>
    IN map_document(name, width, height, layers, entities)

\* main leaving the spawn_id of the houses to generate_interior's default
main_default_spawn ==
    LET interiors ==
            <<<<"Hearthvale_Inn", "spawn_inn_entry", "spawn_inn_exit">>,
              <<"Hearthvale_ItemShop", "spawn_itemshop_entry", "spawn_itemshop_exit">>,
              <<"Hearthvale_WeaponShop", "spawn_weaponshop_entry", "spawn_weaponshop_exit">>,
              <<"Hearthvale_Cathedral", "spawn_cathedral_entry", "spawn_cathedral_exit">>>>
        house(k) == "Hearthvale_House_0" \o IntToStr(k)
    IN ("Hearthvale_Town" :> generate_town)
       @@ [name \in {interiors[k][1] : k \in 1..4} |->
              LET t == CHOOSE k \in 1..4 : interiors[k][1] = name
              IN generate_interior(name, 24, 18, "npc_interior", interiors[t][2],
                                   "Hearthvale_Town", interiors[t][3])]
       @@ [name \in {house(k) : k \in 1..6} |->
              LET k == CHOOSE k \in 1..6 : house(k) = name
              IN generate_interior(name, 20, 14, "npc_house_0" \o IntToStr(k),
                                   None, "Hearthvale_Town",
                                   "spawn_house_0" \o IntToStr(k) \o "_exit")]

\* main: the documents written, by the name of their file
main ==
    LET interiors ==
            <<<<"Hearthvale_Inn", "spawn_inn_entry", "spawn_inn_exit">>,
              <<"Hearthvale_ItemShop", "spawn_itemshop_entry", "spawn_itemshop_exit">>,
              <<"Hearthvale_WeaponShop", "spawn_weaponshop_entry", "spawn_weaponshop_exit">>,
              <<"Hearthvale_Cathedral", "spawn_cathedral_entry", "spawn_cathedral_exit">>>>
        house(k) == "Hearthvale_House_0" \o IntToStr(k)
    IN ("Hearthvale_Town" :> generate_town)
       @@ [name \in {interiors[k][1] : k \in 1..4} |->
              LET t == CHOOSE k \in 1..4 : interiors[k][1] = name
              IN generate_interior(name, 24, 18, "npc_interior", interiors[t][2],
                                   "Hearthvale_Town", interiors[t][3])]
       @@ [name \in {house(k) : k \in 1..6} |->
              LET k == CHOOSE k \in 1..6 : house(k) = name
              IN generate_interior(name, 20, 14, "npc_house_0" \o IntToStr(k),
                                   "spawn_house_entry", "Hearthvale_Town",
                                   "spawn_house_0" \o IntToStr(k) \o "_exit")]

\* the tile records of the tileset documents: tile 1 with every field, tile
\* 2 with a key and a glyph, tile 3 with nothing but its id, tile 2 with an
\* empty name and a key, and a tile 0
TileKinds ==
    LET full == [keys |-> {"id", "name", "key", "solid", "glyph", "tags",
                           "atlas_image", "uv", "sprite_key"},
                 id |-> 1, name |-> "wall", key |-> "wall_key", solid |-> TRUE,
                 glyph |-> "#", tags |-> <<"building">>,
                 atlas_image |-> "overworld.png", uv |-> <<1, 0>>,
                 sprite_key |-> "wall"]
    IN {full,
        [full EXCEPT !.id = 2, !.keys = {"id", "key", "glyph"}, !.key = "grass",
                     !.glyph = "."],
        [full EXCEPT !.id = 3, !.keys = {"id"}],
        [full EXCEPT !.id = 2, !.keys = {"id", "name", "key", "solid"}, !.name = "",
                     !.key = "path", !.solid = FALSE],
        [full EXCEPT !.id = 0, !.keys = {"id", "name", "glyph"}, !.name = "void",
                     !.glyph = " "]}

\* a tileset document that holds the records as a list, or as a JSON object
\* from str(id) to the record without its "id"
Encoded(records, encoding) ==
    [tile_size |-> 16,
     encoding |-> encoding,
     tiles |-> IF encoding = "dict"
               THEN [i \in 1..Len(records) |->
                       <<IntToStr(records[i].id),
                         [keys |-> records[i].keys \ {"id"}] @@ records[i]>>]
               ELSE records]

\* tileset documents: up to two tiles of distinct ids, in both encodings
TilesetDocuments ==
    { Encoded(records, encoding)
      : records \in {r \in SeqsUpTo(TileKinds, 2) :
                        \A i, j \in 1..Len(r) : i # j => r[i].id # r[j].id},
        encoding \in {"list", "dict"} }

----------------------------------------------------------------------------
(* The operations.                                                         *)

NoCall ==
    [op |-> "", layer |-> "", x |-> 0, y |-> 0, entity_types |-> NoTypes,
     include_overhead |-> TRUE, player |-> NoPlayer, view |-> <<0, 0, 0, 0>>,
     ret |-> RetTile(0), result |-> NoResult, out |-> <<>>]

\* the driving loop is not running
NoStep ==
    [pc |-> "", command |-> "", moved |-> FALSE, checks |-> <<>>,
     printed |-> <<>>, result |-> NoResult, raised |-> ""]

Start(documents) ==
    /\ doc \in documents
    /\ loaded = ""
    /\ map = NoMap
    /\ call = NoCall
    /\ player = NoPlayer
    /\ disk = EmptyDict
    /\ step = NoStep

\* the MapData after a call on the query surface, the renderer or the
\* resolver, with every door unlocked
Unlocking ==
    /\ map' = [map EXCEPT !.entities =
                  [i \in 1..Len(map.entities) |->
                     IF map.entities[i].type = "door"
                     THEN [map.entities[i] EXCEPT !.props =
                             [@ EXCEPT !.keys = @ \ {"locked"}]]
                     ELSE map.entities[i]]]
    /\ UNCHANGED <<doc, loaded>>

\* a call on the query surface, the renderer or the resolver assigns to
\* nothing of the MapData nor of the loader
ReadOnly == UNCHANGED <<doc, loaded, map>>

\* loader.load_map(name) on the document on disk
LoadMap ==
    /\ loaded = ""
    /\ LET r == load_map(doc)
       IN /\ loaded' = (IF r.err = "" THEN "ok" ELSE r.err)
          /\ map' = r.map
    /\ UNCHANGED <<doc, call>>
    /\ UNCHANGED idle

\* loader.load_tileset(tileset_id) on the tileset document; the Tileset is
\* held where a MapData holds its own
LoadTileset ==
    /\ loaded = ""
    /\ loaded' = "ok"
    /\ map' = [name |-> None, tileset |-> parse_tileset("overworld_tileset_v1", doc)]
    /\ UNCHANGED <<doc, call>>
    /\ UNCHANGED idle

\* the tile ids the tileset is asked for
TileIds == -1..3

\* tileset.is_solid(tile_id)
IsSolidTile ==
    /\ loaded = "ok" /\ call = NoCall
    /\ \E tile_id \in TileIds :
          call' = [NoCall EXCEPT !.op = "Tileset.is_solid", !.x = tile_id,
                                 !.ret = RetFlag(TilesetIsSolid(map.tileset, tile_id))]
    /\ ReadOnly
    /\ UNCHANGED idle

\* tileset.glyph(tile_id)
Glyph ==
    /\ loaded = "ok" /\ call = NoCall
    /\ \E tile_id \in TileIds :
          call' = [NoCall EXCEPT !.op = "Tileset.glyph", !.x = tile_id,
                                 !.out = <<TilesetGlyph(map.tileset, tile_id)>>]
    /\ ReadOnly
    /\ UNCHANGED idle

\* tileset.sprite(tile_id)
Sprite ==
    /\ loaded = "ok" /\ call = NoCall
    /\ \E tile_id \in TileIds :
          call' = [NoCall EXCEPT !.op = "Tileset.sprite", !.x = tile_id,
                                 !.out = <<sprite(map.tileset, tile_id)>>]
    /\ ReadOnly
    /\ UNCHANGED idle

\* the coordinates the calls are made with: the map and a margin around it
Xs == -1..MaxW
Ys == -1..MaxH

\* map.get_tile(layer_name, x, y), for the layers of the map and for a name
\* no map has
GetTile ==
    /\ loaded = "ok" /\ call = NoCall
    /\ \E layer_name \in DOMAIN map.layers \cup {"sky"}, x \in Xs, y \in Ys :
          call' = [NoCall EXCEPT !.op = "get_tile", !.layer = layer_name,
                                 !.x = x, !.y = y,
                                 !.ret = get_tile(map, layer_name, x, y)]
    /\ ReadOnly
    /\ UNCHANGED idle

\* map.is_solid(x, y)
IsSolid ==
    /\ loaded = "ok" /\ call = NoCall
    /\ \E x \in Xs, y \in Ys :
          call' = [NoCall EXCEPT !.op = "is_solid", !.x = x, !.y = y,
                                 !.ret = is_solid(map, x, y)]
    /\ ReadOnly
    /\ UNCHANGED idle

TypeLists == {NoTypes, Types(<<>>), Types(<<"door", "npc", "sign">>), Types(<<"trigger">>)}

\* map.get_entity_at(x, y, entity_types)
GetEntityAt ==
    /\ loaded = "ok" /\ call = NoCall
    /\ \E x \in Xs, y \in Ys, entity_types \in TypeLists :
          call' = [NoCall EXCEPT !.op = "get_entity_at", !.x = x, !.y = y,
                                 !.entity_types = entity_types,
                                 !.ret = get_entity_at(map, x, y, entity_types)]
    /\ ReadOnly
    /\ UNCHANGED idle

\* MapRenderer(map).composite_tile(x, y, include_overhead)
CompositeTile ==
    /\ loaded = "ok" /\ call = NoCall
    /\ \E x \in Xs, y \in Ys, include_overhead \in BOOLEAN :
          call' = [NoCall EXCEPT !.op = "composite_tile", !.x = x, !.y = y,
                                 !.include_overhead = include_overhead,
                                 !.ret = composite_tile(map, x, y, include_overhead)]
    /\ ReadOnly
    /\ UNCHANGED idle

Facings == {"north", "south", "west", "east", "up"}

Players == {PlayerState(x, y, facing) : x \in Xs, y \in Ys, facing \in Facings}

\* interact(map, player); the call records the entity it resolved
Interact ==
    /\ loaded = "ok" /\ call = NoCall
    /\ \E p \in Players :
          call' = [NoCall EXCEPT !.op = "interact", !.player = p,
                                 !.ret = RetEntity(InteractEntity(map, p)),
                                 !.result = interact(map, p)]
    /\ ReadOnly
    /\ UNCHANGED idle

\* check_trigger(map, player)
CheckTrigger ==
    /\ loaded = "ok" /\ call = NoCall
    /\ \E p \in Players :
          call' = [NoCall EXCEPT !.op = "check_trigger", !.player = p,
                                 !.ret = RetEntity(TriggerEntity(map, p)),
                                 !.result = check_trigger(map, p)]
    /\ ReadOnly
    /\ UNCHANGED idle

\* map.get_entities_by_type(entity_type)
GetEntitiesByType ==
    /\ loaded = "ok" /\ call = NoCall
    /\ \E entity_type \in {"door", "trigger", "spawn"} :
          call' = [NoCall EXCEPT !.op = "get_entities_by_type",
                                 !.entity_types = Types(<<entity_type>>),
                                 !.out = get_entities_by_type(map, entity_type)]
    /\ ReadOnly
    /\ UNCHANGED idle

\* the viewports the renderer is called with: empty, one tile, or wider
\* and higher than the map, from left of, above, on or inside the map
ViewXs == {-1, 0, MaxW - 1}
ViewYs == {-1, 0, MaxH - 1}
ViewWs == {0, 1, MaxW + 2}
ViewHs == {0, 1, MaxH + 2}

\* MapRenderer(map).render_tiles(view_x, view_y, view_w, view_h, include_overhead)
RenderTiles ==
    /\ loaded = "ok" /\ call = NoCall
    /\ \E view_x \in ViewXs, view_y \in ViewYs, view_w \in ViewWs, view_h \in ViewHs,
          include_overhead \in BOOLEAN :
          call' = [NoCall EXCEPT !.op = "render_tiles",
                                 !.view = <<view_x, view_y, view_w, view_h>>,
                                 !.include_overhead = include_overhead,
                                 !.out = render_tiles(map, view_x, view_y, view_w,
                                                      view_h, include_overhead)]
    /\ ReadOnly
    /\ UNCHANGED idle

\* MapRenderer(map).render_ascii(view_x, view_y, view_w, view_h, include_overhead)
RenderAscii ==
    /\ loaded = "ok" /\ call = NoCall
    /\ \E view_x \in ViewXs, view_y \in ViewYs, view_w \in ViewWs, view_h \in ViewHs,
          include_overhead \in BOOLEAN :
          call' = [NoCall EXCEPT !.op = "render_ascii",
                                 !.view = <<view_x, view_y, view_w, view_h>>,
                                 !.include_overhead = include_overhead,
                                 !.out = render_ascii(map, view_x, view_y, view_w,
                                                      view_h, include_overhead)]
    /\ ReadOnly
    /\ UNCHANGED idle

\* the caller takes the outcome of the call; the next call can be made
Return ==
    /\ call # NoCall
    /\ call' = NoCall
    /\ ReadOnly
    /\ UNCHANGED idle

\* the loader on documents that differ in what it checks
LoaderInit == Start(LoaderDocuments)
LoaderNext == LoadMap
LoaderSpec == LoaderInit /\ [][LoaderNext]_vars

\* the tile queries and the renderer on maps that differ in their layers
TileInit == Start(TileDocuments)
TileNext == LoadMap \/ GetTile \/ IsSolid \/ CompositeTile \/ Return
TileSpec == TileInit /\ [][TileNext]_vars

\* the entity query on maps that differ in their entities
EntityInit == Start(EntityDocuments)
EntityNext == LoadMap \/ GetEntityAt \/ Return
EntitySpec == EntityInit /\ [][EntityNext]_vars

\* main, up to the loop: the town is loaded and the player is put on the
\* spawn of the south gate
Main ==
    /\ step.pc = "start"
    /\ LET r == load_map_named(disk, "Hearthvale_Town")
           i == find_spawn(r.map, "spawn_south_gate")
       IN IF r.err # ""
          THEN /\ step' = [step EXCEPT !.pc = "crashed", !.raised = r.err]
               /\ UNCHANGED <<loaded, map, player>>
          ELSE IF i = 0
          THEN /\ step' = [step EXCEPT !.pc = "crashed", !.raised = "ValueError"]
               /\ loaded' = "ok" /\ map' = r.map
               /\ UNCHANGED player
          ELSE /\ step' = [step EXCEPT !.pc = "loop"]
               /\ loaded' = "ok" /\ map' = r.map
               /\ player' = PlayerState(r.map.entities[i].x, r.map.entities[i].y,
                                        Get(r.map.entities[i].props, "facing", "north"))
    /\ UNCHANGED <<doc, call, disk>>

\* a turn of the loop on command w, a, s or d
Move ==
    /\ step.pc = "loop"
    /\ \E command \in DOMAIN MoveOffsets :
          LET o == MoveOutcome(map, player, command)
          IN /\ player' = o.player
             /\ step' = [pc |-> IF o.raised # "" THEN "crashed" ELSE "loop",
                         command |-> command, moved |-> o.moved, checks |-> o.checks,
                         printed |-> o.printed, result |-> NoResult,
                         raised |-> o.raised]
    /\ ReadOnly
    /\ UNCHANGED <<call, disk>>

\* a turn of the loop on command e
InteractCommand ==
    /\ step.pc = "loop"
    /\ LET result == interact(map, player)
           printed == IF Truthy(result.message)
                      THEN <<Line("interact", result.message)>> ELSE <<>>
           turn == [pc |-> "loop", command |-> "e", moved |-> FALSE, checks |-> <<>>,
                    printed |-> printed, result |-> result, raised |-> ""]
       IN IF Truthy(result.transition_map)
          THEN LET o == TransitionOutcome(disk, map, player, result)
               IN /\ map' = o.map
                  /\ doc' = IF o.map = map THEN doc ELSE disk[result.transition_map]
                  /\ player' = o.player
                  /\ step' = [turn EXCEPT !.raised = o.raised,
                                          !.pc = IF o.raised # "" THEN "crashed"
                                                 ELSE "loop"]
          ELSE /\ step' = turn
               /\ UNCHANGED <<doc, map, player>>
    /\ UNCHANGED <<loaded, call, disk>>

\* a turn of the loop on any other command but q
UnknownCommand ==
    /\ step.pc = "loop"
    /\ step' = [pc |-> "loop", command |-> "x", moved |-> FALSE, checks |-> <<>>,
                printed |-> <<Line("unknown", "Unknown command.")>>,
                result |-> NoResult, raised |-> ""]
    /\ ReadOnly
    /\ UNCHANGED <<call, player, disk>>

\* command q ends the loop
Quit ==
    /\ step.pc = "loop"
    /\ step' = [pc |-> "done", command |-> "q", moved |-> FALSE, checks |-> <<>>,
                printed |-> <<>>, result |-> NoResult, raised |-> ""]
    /\ ReadOnly
    /\ UNCHANGED <<call, player, disk>>

\* the driving loop on the worlds; the screen it draws before every command
\* is a function of the map and the player and is left out
HarnessInit ==
    /\ disk \in Worlds
    /\ doc = disk["Hearthvale_Town"]
    /\ loaded = ""
    /\ map = NoMap
    /\ call = NoCall
    /\ player = NoPlayer
    /\ step = [NoStep EXCEPT !.pc = "start"]
HarnessNext == Main \/ Move \/ InteractCommand \/ UnknownCommand \/ Quit
HarnessSpec == HarnessInit /\ [][HarnessNext]_vars

\* any number of turns on w, a, s and d that bring the player before a door
\* of the map: the solidity of the generated tiles is in the tileset's file,
\* so every tile from which a door can be faced is taken to be in reach
WalkToDoor ==
    /\ step.pc = "loop"
    /\ \E i \in DOMAIN map.entities : \E facing \in DOMAIN FACING_OFFSETS :
          LET door == map.entities[i]
              offset == FACING_OFFSETS[facing]
          IN /\ door.type = "door"
             /\ \E x \in door.x..(door.x + door.w - 1), y \in door.y..(door.y + door.h - 1) :
                   player' = PlayerState(x - offset[1], y - offset[2], facing)
    /\ step' = [NoStep EXCEPT !.pc = "loop", !.command = "w"]
    /\ ReadOnly
    /\ UNCHANGED <<call, disk>>

\* the driving loop on the documents the generator writes
GeneratorInit ==
    /\ disk = main
    /\ doc = disk["Hearthvale_Town"]
    /\ loaded = ""
    /\ map = NoMap
    /\ call = NoCall
    /\ player = NoPlayer
    /\ step = [NoStep EXCEPT !.pc = "start"]
GeneratorNext == Main \/ WalkToDoor \/ InteractCommand \/ UnknownCommand \/ Quit
GeneratorSpec == GeneratorInit /\ [][GeneratorNext]_vars

\* the whole query surface, the renderer and the resolver, called in any
\* order and any number of times on one loaded map
SurfaceInit == Start(SurfaceDocuments)
SurfaceNext ==
    \/ LoadMap
    \/ GetTile \/ IsSolid \/ GetEntitiesByType \/ GetEntityAt
    \/ CompositeTile \/ RenderAscii \/ RenderTiles
    \/ Interact \/ CheckTrigger
    \/ Return
SurfaceSpec == SurfaceInit /\ [][SurfaceNext]_vars

\* the tileset loader and the tileset's lookups on tileset documents
TilesetInit == Start(TilesetDocuments)
TilesetNext == LoadTileset \/ IsSolidTile \/ Glyph \/ Sprite \/ Return
TilesetSpec == TilesetInit /\ [][TilesetNext]_vars

\* the renderer's draw list on maps that differ in their layers
RenderInit == Start(RenderDocuments)
RenderNext == LoadMap \/ RenderTiles \/ Return
RenderSpec == RenderInit /\ [][RenderNext]_vars

\* the resolver on maps that differ in their entities and their props
InteractInit == Start(InteractDocuments)
InteractNext == LoadMap \/ Interact \/ CheckTrigger \/ Return
InteractSpec == InteractInit /\ [][InteractNext]_vars

----------------------------------------------------------------------------
(* Properties of the query surface and of the renderer (TileSpec).         *)

\* the call in hand is `op`, made on the loaded map
Called(op) == loaded = "ok" /\ call.op = op

\* the coordinates of the call in hand lie on the map
CallInside ==
    /\ 0 <= call.x /\ call.x < map.width
    /\ 0 <= call.y /\ call.y < map.height

\* the tile a layer of the map holds at the coordinates of the call in hand
\* (the data is row-major)
Held(layer_name) == map.layers[layer_name].data[call.y * map.width + call.x + 1]

\* C1: outside [0,width) x [0,height), is_solid returns true and get_tile
\* returns 0 for every layer of the map, with or without a collision layer.
C1_OutsideIsSolidAndEmpty ==
    /\ (Called("is_solid") /\ ~CallInside) => call.ret = RetFlag(TRUE)
    /\ (Called("get_tile") /\ ~CallInside /\ call.layer \in DOMAIN map.layers)
          => call.ret = RetTile(0)

\* is_solid was called just right of a map with a collision layer that is
\* empty on the whole map
C1_Witness ==
    /\ Called("is_solid") /\ call.x = map.width /\ call.y = 0
    /\ "collision" \in DOMAIN map.layers
    /\ \A i \in 1..Len(map.layers["collision"].data) : map.layers["collision"].data[i] = 0
    /\ call.ret.flag

\* C2: with a collision layer, an in-bounds cell is solid iff the collision
\* layer's tile there is non-zero, whatever the other layers hold there and
\* whatever the tileset says of the collision tile id.
C2_CollisionLayerDecides ==
    (Called("is_solid") /\ CallInside /\ "collision" \in DOMAIN map.layers)
        => call.ret = RetFlag(Held("collision") # 0)

\* the collision layer is empty at the cell and the ground layer holds the
\* solid tile there: the cell is not solid
C2_Witness ==
    /\ Called("is_solid") /\ CallInside
    /\ {"collision", "ground"} \subseteq DOMAIN map.layers
    /\ Held("collision") = 0
    /\ Held("ground") = 1 /\ map.tileset.tiles[1].solid
    /\ ~call.ret.flag

\* C3: without a collision layer, an in-bounds cell is solid iff some layer,
\* of any name and visible or not, holds there a non-zero tile the tileset
\* marks solid.
C3_AnySolidTileBlocks ==
    (Called("is_solid") /\ CallInside /\ "collision" \notin DOMAIN map.layers)
        => call.ret = RetFlag(\E n \in DOMAIN map.layers :
                                 /\ Held(n) # 0
                                 /\ Held(n) \in DOMAIN map.tileset.tiles
                                 /\ map.tileset.tiles[Held(n)].solid)

\* the cell holds only a tile the tileset does not know, and a walkable
\* tile: it is not solid
C3_Witness ==
    /\ Called("is_solid") /\ CallInside
    /\ "collision" \notin DOMAIN map.layers
    /\ \E n1, n2 \in DOMAIN map.layers :
          /\ Held(n1) # 0 /\ Held(n1) \notin DOMAIN map.tileset.tiles
          /\ Held(n2) # 0 /\ Held(n2) \in DOMAIN map.tileset.tiles
    /\ ~call.ret.flag

\* the rank of a layer in the compositing order ground < details <
\* structures < overhead, 0 for the layers that are not composited
Rank(layer_name) ==
    CASE layer_name = "ground" -> 1
      [] layer_name = "details" -> 2
      [] layer_name = "structures" -> 3
      [] layer_name = "overhead" -> 4
      [] OTHER -> 0

\* the layers that can contribute to the composite at the call's cell
Contributing ==
    {n \in DOMAIN map.layers :
        /\ Rank(n) > 0
        /\ map.layers[n].visible
        /\ Held(n) # 0
        /\ (call.include_overhead \/ n # "overhead")}

\* C4: in bounds, composite_tile returns the tile of the highest-ranked
\* layer that is present, visible, non-zero at the cell and not overhead
\* when include_overhead is false; 0 when there is none.
C4_TopmostNonZeroVisible ==
    (Called("composite_tile") /\ CallInside)
        => IF Contributing = {} THEN call.ret = RetTile(0)
           ELSE \E n \in Contributing :
                   /\ \A o \in Contributing : Rank(o) <= Rank(n)
                   /\ call.ret = RetTile(Held(n))

\* an invisible layer holds a tile above a visible non-zero one, which is
\* what the composite returns
C4_Witness ==
    /\ Called("composite_tile") /\ CallInside
    /\ \E n \in Contributing, o \in DOMAIN map.layers :
          /\ Rank(o) > Rank(n) /\ ~map.layers[o].visible
          /\ Held(o) # 0 /\ Held(o) # Held(n)
          /\ call.ret = RetTile(Held(n))

----------------------------------------------------------------------------
(* Properties of load_map (LoaderSpec).                                    *)

\* load_map has run on the document
Ran == loaded # ""

\* load_map returned a MapData
Returned == loaded = "ok"

\* the document passes the checks made before the layers are read
HeaderGood ==
    /\ doc.keys = REQUIRED_FIELDS
    /\ doc.format = "TWF_MAP_V1"
    /\ doc.tile_size = TilesetDocs[doc.tileset].tile_size

\* what the checks of a layer record look at
TypeGood(layer) == "type" \in layer.keys /\ layer.type = "tile"
NameGood(layer) == "name" \in layer.keys /\ layer.name # ""
DataLen(layer) == IF "data" \in layer.keys THEN Len(layer.data) ELSE 0
LenGood(layer) == DataLen(layer) = doc.width * doc.height
LayerGood(layer) == TypeGood(layer) /\ NameGood(layer) /\ LenGood(layer)

\* what the checks of an entity record look at
IdGood(entity) == "id" \in entity.keys /\ entity.id # ""
RecordGood(entity) == IdGood(entity) /\ {"type", "x", "y"} \subseteq entity.keys

\* the k-th entity record repeats the id of an earlier one
Repeats(k) ==
    /\ IdGood(doc.entities[k])
    /\ \E j \in 1..(k - 1) : IdGood(doc.entities[j]) /\ doc.entities[j].id = doc.entities[k].id

\* C5: a document that passes all earlier checks and holds two entity
\* records with the same id fails with the duplicate-id error; when load_map
\* succeeds, the entity ids are pairwise distinct and in document order.
C5_DuplicateIdsRejected ==
    /\ (/\ Ran /\ HeaderGood
        /\ \A i \in 1..Len(doc.layers) : LayerGood(doc.layers[i])
        /\ \E k \in 1..Len(doc.entities) :
              /\ Repeats(k)
              /\ \A j \in 1..(k - 1) : RecordGood(doc.entities[j]))
          => loaded = DuplicateEntityIdError
    /\ Returned =>
          /\ \A i, j \in 1..Len(map.entities) :
                map.entities[i].id = map.entities[j].id => i = j
          /\ Len(map.entities) = Len(doc.entities)
          /\ \A i \in 1..Len(map.entities) : map.entities[i].id = doc.entities[i].id

\* a good document whose two entities share the id "a" was refused
C5_Witness ==
    /\ Ran /\ HeaderGood
    /\ \A i \in 1..Len(doc.layers) : LayerGood(doc.layers[i])
    /\ Len(doc.entities) = 2 /\ RecordGood(doc.entities[1]) /\ Repeats(2)
    /\ loaded = DuplicateEntityIdError

\* C6: a document with all required fields whose format is not TWF_MAP_V1
\* fails with the unsupported-format error and yields no MapData, whatever
\* its tile size, layers and entities.
C6_FormatGuard ==
    (Ran /\ doc.keys = REQUIRED_FIELDS /\ doc.format # "TWF_MAP_V1")
        => loaded = UnsupportedFormatError /\ map = NoMap

\* a document of another format, with a wrong tile size, a bad layer and a
\* repeated entity id, was refused for its format
C6_Witness ==
    /\ Ran /\ doc.keys = REQUIRED_FIELDS /\ doc.format # "TWF_MAP_V1"
    /\ doc.tile_size # TilesetDocs[doc.tileset].tile_size
    /\ \E i \in 1..Len(doc.layers) : ~LayerGood(doc.layers[i])
    /\ \E k \in 1..Len(doc.entities) : Repeats(k)
    /\ loaded = UnsupportedFormatError

\* C7: a document lacking a required field fails with the missing-field
\* error, also when it has an unsupported format, a mismatched tile size, a
\* bad layer or a repeated entity id.
C7_MissingFieldFirst ==
    (Ran /\ REQUIRED_FIELDS \ doc.keys # {})
        => loaded = MissingFieldError /\ map = NoMap

\* a document without a name, of another format, with a wrong tile size, a
\* bad layer and a repeated entity id, was refused for the missing field
C7_Witness ==
    /\ Ran /\ "name" \notin doc.keys
    /\ doc.format # "TWF_MAP_V1"
    /\ doc.tile_size # TilesetDocs[doc.tileset].tile_size
    /\ \E i \in 1..Len(doc.layers) : ~LayerGood(doc.layers[i])
    /\ \E k \in 1..Len(doc.entities) : Repeats(k)
    /\ loaded = MissingFieldError

\* every layer of the MapData returned holds width*height tiles
LayersFull ==
    Returned => \A n \in DOMAIN map.layers :
                   Len(map.layers[n].data) = map.width * map.height

\* the document lists a layer whose data is not width*height long
HasWrongLength ==
    /\ {"layers", "width", "height"} \subseteq doc.keys
    /\ \E i \in 1..Len(doc.layers) : ~LenGood(doc.layers[i])

\* C8 as claimed: every layer of a returned MapData holds width*height
\* tiles, and a document with a layer of another length fails with the
\* layer-size error.
C8_AsClaimed ==
    /\ LayersFull
    /\ (Ran /\ HasWrongLength) => loaded = LayerSizeMismatchError

\* C8, amended: every layer of a returned MapData holds width*height tiles;
\* a document with a layer of another length never yields a MapData, and it
\* fails with the layer-size error when the header checks pass and the first
\* layer record that fails a check has the tile type and a name.
C8_LayerLengthChecked ==
    /\ LayersFull
    /\ (Ran /\ HasWrongLength) => (~Returned /\ map = NoMap)
    /\ (/\ Ran /\ HeaderGood
        /\ \E k \in 1..Len(doc.layers) :
              /\ \A j \in 1..(k - 1) : LayerGood(doc.layers[j])
              /\ TypeGood(doc.layers[k]) /\ NameGood(doc.layers[k])
              /\ ~LenGood(doc.layers[k]))
          => loaded = LayerSizeMismatchError

\* a document that is good up to a second layer without data was refused
\* for the layer's length
C8_Witness ==
    /\ Ran /\ HeaderGood
    /\ Len(doc.layers) = 2 /\ LayerGood(doc.layers[1])
    /\ "data" \notin doc.layers[2].keys
    /\ doc.width * doc.height > 0
    /\ loaded = LayerSizeMismatchError

\* the tile size of the MapData returned is that of its tileset
TileSizeKept == Returned => map.tile_size = map.tileset.tile_size

\* the document declares another tile size than the tileset it names
HasWrongTileSize ==
    /\ {"tile_size", "tileset"} \subseteq doc.keys
    /\ doc.tile_size # TilesetDocs[doc.tileset].tile_size

\* C9 as claimed: a returned MapData has the tile size of its tileset, and a
\* document declaring another tile size fails with the tile-size-mismatch
\* error.
C9_AsClaimed ==
    /\ TileSizeKept
    /\ (Ran /\ HasWrongTileSize) => loaded = TileSizeMismatchError

\* C9, amended: a returned MapData has the tile size of its tileset; a
\* document declaring another tile size never yields a MapData, and it
\* fails with the tile-size-mismatch error when it has all required fields
\* and the supported format.
C9_TileSizeChecked ==
    /\ TileSizeKept
    /\ (Ran /\ HasWrongTileSize) => (~Returned /\ map = NoMap)
    /\ (Ran /\ HasWrongTileSize /\ doc.keys = REQUIRED_FIELDS /\ doc.format = "TWF_MAP_V1")
          => loaded = TileSizeMismatchError

\* a document of the supported format with a wrong tile size, a bad layer
\* and a repeated entity id was refused for its tile size
C9_Witness ==
    /\ Ran /\ HasWrongTileSize /\ doc.keys = REQUIRED_FIELDS
    /\ doc.format = "TWF_MAP_V1"
    /\ \E i \in 1..Len(doc.layers) : ~LayerGood(doc.layers[i])
    /\ \E k \in 1..Len(doc.entities) : Repeats(k)
    /\ loaded = TileSizeMismatchError

----------------------------------------------------------------------------
(* Properties of get_entity_at (EntitySpec).                               *)

\* the entities an allow-list admits at the coordinates of the call in hand:
\* those that cover the tile and whose type is in the list, any type when
\* no list is given
Admitted ==
    {i \in 1..Len(map.entities) :
        /\ map.entities[i].x <= call.x
        /\ call.x < map.entities[i].x + map.entities[i].w
        /\ map.entities[i].y <= call.y
        /\ call.y < map.entities[i].y + map.entities[i].h
        /\ (call.entity_types.given
              => \E k \in 1..Len(call.entity_types.list) :
                    call.entity_types.list[k] = map.entities[i].type)}

\* the call in hand returned the first admitted entity, None when there is
\* none
FirstAdmitted ==
    IF Admitted = {} THEN call.ret = RetEntity(0)
    ELSE /\ call.ret.entity \in Admitted
         /\ \A i \in Admitted : call.ret.entity <= i

\* C10: get_entity_at returns the first entity, in list order, that covers
\* the tile and whose type is in the allow-list (any type when no allow-list
\* is given), and nothing iff there is none.
C10_FirstAdmittedEntity == Called("get_entity_at") => FirstAdmitted

\* C10 for the calls that pass no allow-list or one that is not empty
C10_ExceptEmptyList ==
    (/\ Called("get_entity_at")
     /\ (call.entity_types.given => Len(call.entity_types.list) > 0))
        => FirstAdmitted

\* a trigger listed before a door covers the tile too, and the call that
\* allows doors, npcs and signs returned the door
C10_LaterAllowedFound ==
    /\ Called("get_entity_at")
    /\ call.entity_types = Types(<<"door", "npc", "sign">>)
    /\ call.ret.entity = 2
    /\ map.entities[1].type = "trigger"
    /\ covers_tile(map.entities[1], call.x, call.y)

\* C20: every loaded entity has w >= 1 and h >= 1 and so covers its anchor
\* tile (x, y); covers_tile(tx, ty) holds iff x <= tx < x + w and
\* y <= ty < y + h.
C20_LoadedEntitiesCoverAnchor ==
    Returned =>
        \A i \in 1..Len(map.entities) :
            LET entity == map.entities[i]
            IN /\ entity.w >= 1 /\ entity.h >= 1
               /\ covers_tile(entity, entity.x, entity.y)
               /\ \A tx \in Xs, ty \in Ys :
                      covers_tile(entity, tx, ty) <=>
                          /\ entity.x <= tx /\ tx < entity.x + entity.w
                          /\ entity.y <= ty /\ ty < entity.y + entity.h

\* the loader returned a map with an entity that covers no tile at all
C20_EmptyEntityLoaded ==
    /\ Returned
    /\ \E i \in 1..Len(map.entities) :
          /\ map.entities[i].w = 0
          /\ \A tx \in Xs, ty \in Ys : ~covers_tile(map.entities[i], tx, ty)

\* C21: every MapData that load_map returns has width > 0, height > 0 and
\* tile_size > 0; a document that declares a width, height or tile_size of
\* zero or less is never turned into a MapData.
C21_PositiveDimensions ==
    /\ Returned => map.width > 0 /\ map.height > 0 /\ map.tile_size > 0
    /\ (/\ {"width", "height", "tile_size"} \subseteq doc.keys
        /\ (doc.width <= 0 \/ doc.height <= 0 \/ doc.tile_size <= 0))
           => ~Returned

\* the loader returned a map no tile wide, and one of width -1 and height
\* -1 whose layer holds one tile
C21_EmptyMapLoaded == Returned /\ map.width = 0 /\ map.layers["ground"].data = <<>>
C21_NegativeMapLoaded ==
    Returned /\ map.width = -1 /\ map.height = -1 /\ Len(map.layers["ground"].data) = 1

----------------------------------------------------------------------------
(* Properties of the interaction resolver (InteractSpec).                  *)

\* the entity the call in hand resolved, and its props
Resolved == map.entities[call.ret.entity]

\* the tile next to the player of the call in hand, on the side the player
\* faces; a facing that is no compass point counts as north
Faced ==
    LET p == call.player
    IN CASE p.facing = "south" -> <<p.x, p.y + 1>>
         [] p.facing = "west" -> <<p.x - 1, p.y>>
         [] p.facing = "east" -> <<p.x + 1, p.y>>
         [] OTHER -> <<p.x, p.y - 1>>

\* the rectangle of the i-th entity of the map holds the tile
Over(i, tile) ==
    LET e == map.entities[i]
    IN /\ e.x <= tile[1] /\ tile[1] < e.x + e.w
       /\ e.y <= tile[2] /\ tile[2] < e.y + e.h

\* the entities of the given types over the tile, by position in the list
Candidates(types, tile) ==
    {i \in 1..Len(map.entities) : map.entities[i].type \in types /\ Over(i, tile)}

\* the call in hand resolved the first candidate, None when there is none
FirstOf(candidates) ==
    IF candidates = {} THEN call.ret.entity = 0
    ELSE /\ call.ret.entity \in candidates
         /\ \A i \in candidates : call.ret.entity <= i

\* C11: for a door, interact returns, when props.locked is truthy, a result
\* whose message is props.locked_message ("It's locked." when absent) and
\* that has no transition_map and no transition_spawn; otherwise a result
\* whose transition_map is props.target_map and whose transition_spawn is
\* props.target_spawn, with no message.
C11_DoorLockedOrTransition ==
    (Called("interact") /\ call.ret.entity # 0 /\ Resolved.type = "door") =>
        LET props == Resolved.props
            at(key) == IF key \in props.keys THEN props[key] ELSE None
        IN IF "locked" \in props.keys /\ props.locked
           THEN /\ call.result.message =
                      IF "locked_message" \in props.keys
                      THEN props.locked_message ELSE "It's locked."
                /\ call.result.transition_map = None
                /\ call.result.transition_spawn = None
           ELSE /\ call.result.message = None
                /\ call.result.transition_map = at("target_map")
                /\ call.result.transition_spawn = at("target_spawn")

\* interact resolved a locked door that has a target map but no message of
\* its own, and returned the default message and no transition
C11_Witness ==
    /\ Called("interact") /\ call.ret.entity # 0 /\ Resolved.type = "door"
    /\ Resolved.props.keys = {"locked", "target_map", "target_spawn"}
    /\ Resolved.props.locked
    /\ call.result = InteractionResult("It's locked.", None, None)

\* C12: interact resolves the first entity, in list order, of type door, npc
\* or sign that covers the tile the player faces (a facing without an offset
\* uses north's); entities of other types and entities over the player's own
\* tile only are ignored, and when there is none the result has no message
\* and no transition.
C12_FirstInteractiveFaced ==
    Called("interact") =>
        /\ FirstOf(Candidates({"door", "npc", "sign"}, Faced))
        /\ call.ret.entity = 0 => call.result = InteractionResult(None, None, None)

\* the player faces nowhere on the compass; a trigger listed first lies
\* over the tile north of the player and is passed over for the sign listed
\* after it
C12_Witness ==
    /\ Called("interact")
    /\ call.player.facing \notin {"north", "south", "west", "east"}
    /\ call.ret.entity = 2
    /\ map.entities[1].type = "trigger"
    /\ Over(1, <<call.player.x, call.player.y - 1>>)
    /\ call.result.message = "Mind the step."

\* an npc lies over the player's own tile only and nothing is resolved
C12_OwnTileIgnored ==
    /\ Called("interact")
    /\ Candidates({"door", "npc", "sign"}, <<call.player.x, call.player.y>>) # {}
    /\ call.result = InteractionResult(None, None, None)

\* C13: check_trigger returns a result whose message is props.on_enter.text
\* when a trigger covers the player's own tile and its on_enter action is
\* "message" (the first such trigger in list order is the one looked at),
\* and nothing when no trigger covers the tile or the action is anything
\* else; the outcome is a function of the player's (x, y), not of facing.
C13_TriggerOnOwnTile ==
    Called("check_trigger") =>
        LET here == <<call.player.x, call.player.y>>
            on_enter == Get(Resolved.props, "on_enter", [keys |-> {}])
        IN /\ FirstOf(Candidates({"trigger"}, here))
           /\ IF /\ call.ret.entity # 0
                 /\ "action" \in on_enter.keys /\ on_enter.action = "message"
              THEN /\ ~call.result.none
                   /\ "text" \in on_enter.keys => call.result.message = on_enter.text
                   /\ call.result.transition_map = None
                   /\ call.result.transition_spawn = None
              ELSE call.result = NoResult

\* a message trigger lies under the player, a sign on the tile the player
\* faces, and check_trigger returned the trigger's text
C13_Witness ==
    /\ Called("check_trigger")
    /\ call.ret.entity = 1
    /\ Candidates({"sign"}, Faced) # {}
    /\ ~Over(1, Faced)
    /\ call.result = InteractionResult("You feel a chill.", None, None)

\* the result in hand has a transition_map or a transition_spawn
Transition ==
    call.result.transition_map # None \/ call.result.transition_spawn # None

\* C26: the result of interact never carries both a message and a
\* transition: transition_map and transition_spawn are set only when the
\* resolved entity is a door that is not locked, a message only when it is a
\* locked door, an npc or a sign, and no result has a transition_spawn when
\* no door was found.
C26_MessageOrTransition ==
    Called("interact") =>
        LET locked == /\ Resolved.type = "door"
                      /\ "locked" \in Resolved.props.keys
                      /\ Resolved.props.locked
        IN /\ ~(call.result.message # None /\ Transition)
           /\ Transition =>
                 call.ret.entity # 0 /\ Resolved.type = "door" /\ ~locked
           /\ call.result.message # None =>
                 call.ret.entity # 0 /\ (locked \/ Resolved.type \in {"npc", "sign"})

\* interact resolved a locked door that names a target map and a target
\* spawn, and the result has the door's message and no transition
C26_Witness ==
    /\ Called("interact") /\ call.ret.entity # 0 /\ Resolved.type = "door"
    /\ Resolved.props.locked
    /\ {"target_map", "target_spawn", "locked_message"} \subseteq Resolved.props.keys
    /\ call.result.message = "The door is barred."
    /\ ~Transition

\* C28: check_trigger examines only the first trigger, in list order, that
\* covers the player's tile: when its on_enter action is not "message", or
\* it has no on_enter, check_trigger returns nothing, even if a later trigger
\* over the same tile has the action "message".
C28_OnlyFirstTrigger ==
    LET here == <<call.player.x, call.player.y>>
        over == Candidates({"trigger"}, here)
        first == CHOOSE i \in over : \A j \in over : i <= j
        on_enter == Get(map.entities[first].props, "on_enter", [keys |-> {}])
    IN (Called("check_trigger") /\ over # {}
        /\ ~("action" \in on_enter.keys /\ on_enter.action = "message")) =>
           call.result = NoResult

\* a trigger with another action lies under the player, a message trigger
\* listed after it lies under the player too, and nothing is returned
C28_Witness ==
    /\ Called("check_trigger")
    /\ Len(map.entities) >= 2
    /\ map.entities[1].type = "trigger" /\ map.entities[2].type = "trigger"
    /\ Over(1, <<call.player.x, call.player.y>>)
    /\ Over(2, <<call.player.x, call.player.y>>)
    /\ "on_enter" \in map.entities[1].props.keys
    /\ map.entities[1].props.on_enter.action = "teleport"
    /\ map.entities[2].props.on_enter.action = "message"
    /\ call.result = NoResult

----------------------------------------------------------------------------
(* Properties of the draw list (RenderSpec).                               *)

\* the (layer, x, y) the call in hand has to draw: a layer of the drawing
\* order that the map has and that is visible (overhead only when asked
\* for), a cell inside the viewport and the map, a tile that is not 0
Drawn ==
    LET view_x == call.view[1]
        view_y == call.view[2]
        view_w == call.view[3]
        view_h == call.view[4]
    IN {c \in ({"ground", "details", "structures", "overhead"} \cap DOMAIN map.layers)
              \X (0..(map.width - 1)) \X (0..(map.height - 1)) :
          /\ map.layers[c[1]].visible
          /\ c[1] = "overhead" => call.include_overhead
          /\ view_x <= c[2] /\ c[2] < view_x + view_w
          /\ view_y <= c[3] /\ c[3] < view_y + view_h
          /\ map.layers[c[1]].data[c[3] * map.width + c[2] + 1] # 0}

\* the i-th command of the list draws the tile of cell c
Draws(i, c) ==
    /\ call.out[i].layer = c[1]
    /\ call.out[i].x = c[2] * map.tile_size
    /\ call.out[i].y = c[3] * map.tile_size
    /\ call.out[i].tile_id = map.layers[c[1]].data[c[3] * map.width + c[2] + 1]

\* C14: render_tiles emits exactly one command for every (layer, x, y) where
\* the layer is ground, details, structures or overhead, present and visible
\* (overhead only when include_overhead), (x, y) is inside the viewport and
\* the map, and the tile is not 0; the command carries the tile id, the
\* layer name and the pixel position (x * tile_size, y * tile_size).  Nothing
\* is emitted for empty tiles, cells off the map, invisible layers and
\* layers of other names.
C14_OneCommandPerDrawnTile ==
    Called("render_tiles") =>
        /\ \A c \in Drawn :
               Cardinality({i \in 1..Len(call.out) : Draws(i, c)}) = 1
        /\ \A i \in 1..Len(call.out) : \E c \in Drawn : Draws(i, c)

\* a viewport wider and higher than the map, on a map with a fog layer and
\* a ground layer whose first cell is empty: every other ground tile is
\* drawn once and nothing else is
C14_Witness ==
    /\ Called("render_tiles")
    /\ call.view = <<-1, -1, MaxW + 2, MaxH + 2>>
    /\ DOMAIN map.layers = {"fog", "ground"}
    /\ map.layers["fog"].data[1] # 0
    /\ map.layers["ground"].data[1] = 0
    /\ Len(call.out) = Cells - 1
    /\ call.out[1] = TileRenderCommand(2, "ground", 16, 0, None, None, NoUV)

\* C15: the commands come in the order ground, details, structures,
\* overhead of their layers, and within one layer in row-major order
\* (increasing y, then increasing x).
C15_LayerThenRowMajor ==
    Called("render_tiles") =>
        \A i, j \in 1..Len(call.out) :
            i < j =>
                LET a == call.out[i]
                    b == call.out[j]
                IN \/ Rank(a.layer) < Rank(b.layer)
                   \/ /\ a.layer = b.layer
                      /\ \/ a.y < b.y
                         \/ a.y = b.y /\ a.x < b.x

\* two full layers listed overhead first are drawn ground first, each of
\* them row by row
C15_Witness ==
    /\ Called("render_tiles")
    /\ Len(call.out) = 2 * Cells
    /\ doc.layers[1].name = "overhead"
    /\ call.out[1].layer = "ground"
    /\ call.out[2].x > call.out[1].x /\ call.out[2].y = call.out[1].y
    /\ call.out[MaxW + 1].y > call.out[MaxW].y
    /\ call.out[Cells + 1].layer = "overhead"

\* the commands of the draw list in hand at the pixel position of cell (x, y)
CommandsAt(x, y) ==
    {i \in 1..Len(call.out) : /\ call.out[i].x = x * map.tile_size
                              /\ call.out[i].y = y * map.tile_size}

\* the cells of the map inside the viewport of the call in hand
CellsInView ==
    {c \in (0..(map.width - 1)) \X (0..(map.height - 1)) :
        /\ call.view[1] <= c[1] /\ c[1] < call.view[1] + call.view[3]
        /\ call.view[2] <= c[2] /\ c[2] < call.view[2] + call.view[4]}

\* C27: the two rendering paths agree: for every cell of the map inside the
\* viewport and either value of include_overhead, composite_tile is the
\* tile_id of the last command of render_tiles at the cell's pixel position,
\* and it is 0 exactly when render_tiles has no command for the cell.
C27_RenderPathsAgree ==
    Called("render_tiles") =>
        \A c \in CellsInView :
            LET at == CommandsAt(c[1], c[2])
                last == CHOOSE i \in at : \A j \in at : j <= i
                tile == composite_tile(map, c[1], c[2], call.include_overhead)
            IN /\ tile.raised = ""
               /\ (tile.tile = 0) <=> (at = {})
               /\ at # {} => tile.tile = call.out[last].tile_id

\* the draw list has two commands with different tiles for the second cell
\* of the first row, of which the upper one decides the composite, and one
\* command for the first cell, where the upper layer is empty
C27_Witness ==
    /\ Called("render_tiles")
    /\ <<0, 0>> \in CellsInView /\ <<1, 0>> \in CellsInView
    /\ Cardinality(CommandsAt(0, 0)) = 1
    /\ Cardinality(CommandsAt(1, 0)) = 2
    /\ \E i, j \in CommandsAt(1, 0) :
          /\ i < j /\ call.out[i].tile_id # call.out[j].tile_id
          /\ call.out[j].layer = "overhead"
          /\ map.layers["overhead"].data[1] = 0
          /\ composite_tile(map, 1, 0, call.include_overhead).tile = call.out[j].tile_id

----------------------------------------------------------------------------
(* Properties of the driving loop (HarnessSpec).                           *)

\* the tile is on the current map and is not solid: the collision layer,
\* when the map has one, is empty there; otherwise no layer holds a tile
\* there that the tileset calls solid
Walkable(x, y) ==
    /\ 0 <= x /\ x < map.width
    /\ 0 <= y /\ y < map.height
    /\ LET at == y * map.width + x + 1
       IN IF "collision" \in DOMAIN map.layers
          THEN map.layers["collision"].data[at] = 0
          ELSE \A n \in DOMAIN map.layers :
                  LET t == map.layers[n].data[at]
                  IN \/ t = 0
                     \/ t \notin DOMAIN map.tileset.tiles
                     \/ ~map.tileset.tiles[t].solid

\* the turn that ends in the primed state was a move command
MoveTurn == step'.pc = "loop" /\ step'.command \in {"w", "a", "s", "d"}

\* the turn that ends in the primed state took the player to another tile
Stepped == <<player'.x, player'.y>> # <<player.x, player.y>>

\* C16: a move changes the player's position only when the target tile is
\* not solid (is_solid answered false), and so a move from a tile that is
\* on the map and not solid ends on a tile that is on the map and not
\* solid: from such a start, any sequence of moves on one map keeps the
\* player on such tiles.
C16_MovesStayWalkable ==
    [][MoveTurn =>
          /\ map' = map
          /\ Stepped => Walkable(player'.x, player'.y)
          /\ Walkable(player.x, player.y) => Walkable(player'.x, player'.y)]_vars

\* the player stepped onto a tile that is not solid, next to a solid tile
\* of the map
C16_Witness ==
    /\ step.pc = "loop" /\ step.command \in {"w", "a", "s", "d"} /\ step.moved
    /\ Walkable(player.x, player.y)
    /\ \E d \in {<<0, 1>>, <<0, -1>>, <<1, 0>>, <<-1, 0>>} :
          /\ 0 <= player.x + d[1] /\ player.x + d[1] < map.width
          /\ 0 <= player.y + d[2] /\ player.y + d[2] < map.height
          /\ ~Walkable(player.x + d[1], player.y + d[2])

\* the spawn of the south gate lies on a solid tile and a move from it was
\* blocked: the player stands on a solid tile
C16_StartOnSolid ==
    /\ step.pc = "loop" /\ step.command \in {"w", "a", "s", "d"} /\ ~step.moved
    /\ ~Walkable(player.x, player.y)

\* the lines of the last turn that check_trigger's result printed
TriggerLines(turn) == {k \in 1..Len(turn.printed) : turn.printed[k].kind = "trigger"}

\* C17: check_trigger is called exactly once after each committed move, at
\* the new tile, and not at all after a blocked move, an interact, an
\* unknown command or a map transition; so a trigger message is printed at
\* most once per tile entry and only on a turn that took the player to
\* another tile, never again while the player stays on the trigger's tile.
C17_TriggerOncePerStep ==
    [][step'.pc # "start" =>
          /\ step'.checks = IF MoveTurn /\ Stepped
                            THEN << <<player'.x, player'.y>> >> ELSE <<>>
          /\ Cardinality(TriggerLines(step')) <= Len(step'.checks)]_vars

\* the player stands on the tile of a message trigger after a turn that was
\* no committed move, and nothing of the trigger was printed
C17_Witness ==
    /\ step.pc = "loop" /\ step.command \in {"w", "a", "s", "d", "e", "x"}
    /\ ~step.moved
    /\ ~check_trigger(map, player).none
    /\ step.checks = <<>>
    /\ TriggerLines(step) = {}

\* the player stepped from one tile of a message trigger to another and the
\* message was printed for the new tile
C17_PrintedOnEntry ==
    /\ step.pc = "loop" /\ step.moved
    /\ step.checks = << <<player.x, player.y>> >>
    /\ player.x = 1
    /\ step.printed = <<Line("trigger", "You feel a chill.")>>

\* the tile the move command of the turn that ends in the primed state
\* aimed at
Aimed ==
    <<player.x + MoveOffsets[step'.command][2], player.y + MoveOffsets[step'.command][3]>>

\* C30: a move command always sets the player's facing to the commanded
\* direction, also when the move is blocked; a move is blocked exactly when
\* the target tile is solid or off the map, and then the player's x and y
\* and the current map are unchanged, the player faces the target tile, and
\* interact resolves the door, npc or sign that lies over it.
C30_BlockedMoveTurns ==
    [][MoveTurn =>
          /\ player'.facing = MoveOffsets[step'.command][1]
          /\ step'.moved <=> Walkable(Aimed[1], Aimed[2])
          /\ step'.moved => <<player'.x, player'.y>> = Aimed
          /\ ~step'.moved =>
                /\ player'.x = player.x /\ player'.y = player.y
                /\ map' = map
                /\ get_facing_tile(player') = Aimed
                /\ InteractEntity(map', player') # 0 <=>
                      \E i \in DOMAIN map.entities :
                          /\ map.entities[i].type \in {"door", "npc", "sign"}
                          /\ covers_tile(map.entities[i], Aimed[1], Aimed[2])]_vars

\* the door of the town lies on a solid tile; the player, below it, was
\* turned north by a blocked move and then interacted with the door, which
\* is locked
C30_Witness ==
    /\ step.pc = "loop" /\ step.command = "e"
    /\ map.name = "Hearthvale_Town"
    /\ player = PlayerState(MaxW - 1, 1, "north")
    /\ ~Walkable(MaxW - 1, 0)
    /\ map.entities[2].type = "door"
    /\ covers_tile(map.entities[2], MaxW - 1, 0)
    /\ step.result.message = "It's locked."

\* a move north was blocked by the solid tile of the door and left the
\* player below it, facing it
C30_Blocked ==
    /\ step.pc = "loop" /\ step.command = "w" /\ ~step.moved
    /\ player = PlayerState(MaxW - 1, 1, "north")
    /\ ~Walkable(MaxW - 1, 0)
    /\ InteractEntity(map, player) = 2

\* the spawns of the current map, by position in the list, and those among
\* them with the id the last interact asked for
Spawns == {k \in 1..Len(map.entities) : map.entities[k].type = "spawn"}
Matching == {k \in Spawns : map.entities[k].id = step.result.transition_spawn}

\* the last turn was an interact whose result named a map that is on disk
Transited ==
    /\ step.command = "e"
    /\ Truthy(step.result.transition_map)
    /\ step.result.transition_map \in DOMAIN disk

\* the loop goes on with the player on the k-th entity of the target map
PlacedOn(k) ==
    /\ step.pc = "loop"
    /\ map.name = step.result.transition_map
    /\ player.x = map.entities[k].x /\ player.y = map.entities[k].y

\* C18: on a result with a transition the loop loads the target map and
\* puts the player on the spawn whose id is transition_spawn; when
\* transition_spawn is absent or no spawn has that id, it puts the player
\* on the first spawn of the target map.
C18_SpawnOrFirstSpawn ==
    (Transited /\ Spawns # {}) =>
        LET wanted == IF Matching # {} THEN Matching ELSE Spawns
        IN PlacedOn(CHOOSE k \in wanted : \A l \in wanted : k <= l)

\* C18, as the loop does it: the player is put on the first spawn whose id
\* is transition_spawn; when transition_spawn is absent or no spawn has that
\* id, find_spawn raises ValueError and the loop ends with it.
C18_MatchingSpawnOrError ==
    Transited =>
        IF Matching # {}
        THEN PlacedOn(CHOOSE k \in Matching : \A l \in Matching : k <= l)
        ELSE /\ step.pc = "crashed" /\ step.raised = "ValueError"
             /\ map.name = step.result.transition_map

\* the player was put on the spawn at the inn's door, listed second
C18_SecondSpawn ==
    /\ Transited /\ Matching = {2}
    /\ PlacedOn(2)
    /\ player.facing = "east"

\* the target map has spawns, none with the id asked for, and the loop
\* ended with the ValueError of find_spawn
C18_NoFallback ==
    /\ Transited /\ Spawns # {} /\ Matching = {}
    /\ step.pc = "crashed" /\ step.raised = "ValueError"

----------------------------------------------------------------------------
(* Properties of the whole surface (SurfaceSpec).                          *)

\* the entity of the document that the call in hand resolved has
\* props.locked set, as the document was written
LockedOnDisk ==
    /\ call'.ret.entity # 0
    /\ doc.entities[call'.ret.entity].type = "door"
    /\ "locked" \in doc.entities[call'.ret.entity].props.keys
    /\ doc.entities[call'.ret.entity].props.locked

\* C19: none of get_tile, is_solid, get_entities_by_type, get_entity_at,
\* composite_tile, render_ascii, render_tiles, interact and check_trigger
\* changes the MapData; a door that is locked in the document stays locked,
\* and interact on it yields no transition, whatever calls came before.
C19_QueriesLeaveMapAlone ==
    [][loaded = "ok" =>
          /\ map' = map
          /\ (call'.op = "interact" /\ LockedOnDisk) =>
                 /\ call'.result.transition_map = None
                 /\ call'.result.transition_spawn = None]_vars

\* interact on a locked door that has a target map returned its message and
\* no transition, and the map still is what the loader made of the document
C19_Witness ==
    /\ Called("interact")
    /\ call.ret.entity # 0
    /\ Resolved.type = "door"
    /\ Get(Resolved.props, "locked", FALSE)
    /\ "target_map" \in Resolved.props.keys
    /\ call.result.transition_map = None
    /\ Truthy(call.result.message)
    /\ map = load_map(doc).map

----------------------------------------------------------------------------
(* Totality of the renderer and of the tileset (TileSpec).                 *)

\* C22: composite_tile(x, y, include_overhead) completes and returns a tile
\* id without raising for every integer (x, y), the coordinates off the map
\* included, as get_tile and is_solid do.
C22_CompositeTileTotal ==
    (Called("composite_tile") \/ Called("get_tile") \/ Called("is_solid")) =>
        \/ call.ret.raised = ""
        \/ Called("get_tile") /\ call.layer \notin DOMAIN map.layers

\* C22 for get_tile and is_solid alone
C22_QueriesTotal ==
    ((Called("get_tile") /\ call.layer \in DOMAIN map.layers) \/ Called("is_solid"))
        => call.ret.raised = ""

\* composite_tile below the last row raised IndexError
C22_RaisedOffMap ==
    /\ Called("composite_tile")
    /\ call.x = 0 /\ call.y = map.height
    /\ call.ret.raised = "IndexError"

\* composite_tile left of the map returned the tile of a cell of the map
C22_WrapsAround ==
    /\ Called("composite_tile")
    /\ call.x = -1
    /\ call.ret.raised = "" /\ call.ret.tile # 0

----------------------------------------------------------------------------
(* Properties of the tileset (TilesetSpec).                                *)

\* C23: Tileset.is_solid, Tileset.glyph and Tileset.sprite never fail: for
\* a tile id the tileset does not have (0 and negative ids included) they
\* return false, "?" and a sprite with no atlas image, no uv and no sprite
\* key; for an id it has they return that tile's solid flag, glyph and
\* sprite fields.
C23_TilesetLookupsTotal ==
    LET tile_id == call.x
        absent == tile_id \notin DOMAIN map.tileset.tiles
        tile == map.tileset.tiles[tile_id]
    IN /\ Called("Tileset.is_solid") =>
             call.ret = RetFlag(IF absent THEN FALSE ELSE tile.solid)
       /\ Called("Tileset.glyph") =>
             call.out = <<IF absent THEN "?" ELSE tile.glyph>>
       /\ Called("Tileset.sprite") =>
             call.out = <<IF absent
                          THEN [atlas_image |-> None, uv |-> NoUV, sprite_key |-> None]
                          ELSE [atlas_image |-> tile.atlas_image, uv |-> tile.uv,
                                sprite_key |-> tile.sprite_key]>>

\* a tileset that has tile 1 but no tile 0 was asked for the glyph of tile 0
\* and answered "?"
C23_Witness ==
    /\ Called("Tileset.glyph")
    /\ call.x = 0
    /\ DOMAIN map.tileset.tiles = {1}
    /\ call.out = <<"?">>

\* a tileset that has a tile 0 answered with that tile's own glyph
C23_TileZeroPresent ==
    /\ Called("Tileset.glyph")
    /\ call.x = 0
    /\ call.out = <<" ">>

\* the i-th tile of the tileset document: its id as an integer and its record
Entry(i) ==
    IF doc.encoding = "dict"
    THEN [id |-> CHOOSE n \in 0..9 : IntToStr(n) = doc.tiles[i][1],
          tile |-> doc.tiles[i][2]]
    ELSE [id |-> doc.tiles[i].id, tile |-> doc.tiles[i]]

\* the tileset document in the other encoding
Recoded ==
    Encoded([i \in 1..Len(doc.tiles) |->
                [id |-> Entry(i).id, keys |-> Entry(i).tile.keys \cup {"id"}]
                @@ Entry(i).tile],
            IF doc.encoding = "dict" THEN "list" ELSE "dict")

\* C24: load_tileset yields the same Tileset for the two encodings of the
\* same tiles, a mapping from id to record and a list of the records with
\* their ids: the same integer tile ids, and per tile the same name, solid,
\* glyph, tags, atlas_image, uv and sprite_key, the name falling back to
\* "key" and then to tile_<id>.
C24_EncodingsAgree ==
    Returned =>
        /\ map.tileset = parse_tileset(map.tileset.tileset_id, Recoded)
        /\ DOMAIN map.tileset.tiles = {Entry(i).id : i \in 1..Len(doc.tiles)}
        /\ \A i \in 1..Len(doc.tiles) :
              LET id == Entry(i).id
                  tile == Entry(i).tile
                  has(key) == key \in tile.keys /\ tile[key] \notin {None, ""}
              IN map.tileset.tiles[id].name =
                    IF has("name") THEN tile.name
                    ELSE IF has("key") THEN tile.key
                    ELSE "tile_" \o IntToStr(id)

\* a tileset written as a JSON object was loaded; its tile 2 took its name
\* from "key" and its tile 3 was named tile_3
C24_Witness ==
    /\ Returned
    /\ doc.encoding = "dict"
    /\ DOMAIN map.tileset.tiles = {2, 3}
    /\ map.tileset.tiles[2].name \in {"grass", "path"}
    /\ map.tileset.tiles[3].name = "tile_3"

----------------------------------------------------------------------------
(* Properties of the generated maps (GeneratorSpec).                       *)

\* C25: every document generate_maps.py writes passes every check load_map
\* makes of a document: the eight fields and the format are there, every
\* layer is a named tile layer with width * height cells, and every entity
\* has an id that is not empty and is no other entity's of its map.
C25_GeneratedDocumentsLoad ==
    \A name \in DOMAIN disk :
       LET data == disk[name]
       IN /\ data.name = name
          /\ load_map(data).err = ""
          /\ load_map(data).map.name = name
          /\ REQUIRED_FIELDS \subseteq data.keys
          /\ data.format = "TWF_MAP_V1"
          /\ \A i \in DOMAIN data.layers :
                /\ Get(data.layers[i], "type", None) = "tile"
                /\ Truthy(Get(data.layers[i], "name", None))
                /\ Len(data.layers[i].data) = data.width * data.height
          /\ \A i \in DOMAIN data.entities :
                /\ Truthy(Get(data.entities[i], "id", None))
                /\ \A j \in DOMAIN data.entities :
                      data.entities[i].id = data.entities[j].id => i = j

\* the loop has loaded a generated house of 20 by 14 tiles
C25_Witness ==
    /\ disk = main
    /\ step.pc = "loop"
    /\ map.name = "Hearthvale_House_03"
    /\ map.width = 20 /\ map.height = 14
    /\ Len(map.entities) = 3

\* the doors of the document written as name
Doors(name) ==
    {i \in DOMAIN disk[name].entities : disk[name].entities[i].type = "door"}

\* the document written as name has a spawn entity of that id
HasSpawn(name, id) ==
    \E i \in DOMAIN disk[name].entities :
        disk[name].entities[i].type = "spawn" /\ disk[name].entities[i].id = id

\* C29: across the generated documents every door's target_map names a
\* generated map and its target_spawn is the id of a spawn entity of that
\* map, and the town has spawn_south_gate; the driving loop, started in
\* Hearthvale_Town, never fails in find_spawn or in loading a map whatever
\* doors are taken, and every door of an interior leads to Hearthvale_Town.
C29_DoorsLeadToSpawns ==
    /\ \A name \in DOMAIN disk : \A i \in Doors(name) :
          LET props == disk[name].entities[i].props
          IN /\ {"target_map", "target_spawn"} \subseteq props.keys
             /\ "locked" \notin props.keys
             /\ props.target_map \in DOMAIN disk
             /\ HasSpawn(props.target_map, props.target_spawn)
             /\ name # "Hearthvale_Town" => props.target_map = "Hearthvale_Town"
    /\ \A name \in DOMAIN disk \ {"Hearthvale_Town"} : Doors(name) # {}
    /\ HasSpawn("Hearthvale_Town", "spawn_south_gate")
    /\ step.pc # "crashed" /\ step.raised = ""
    /\ (step.command = "e" /\ Truthy(step.result.transition_map)) =>
          LET i == find_spawn(map, step.result.transition_spawn)
          IN /\ map.name = step.result.transition_map
             /\ i # 0
             /\ map.entities[i].id = step.result.transition_spawn
             /\ player.x = map.entities[i].x /\ player.y = map.entities[i].y

\* the player has left the sixth house by its door and stands in the town
\* on the spawn below that house's door
C29_Witness ==
    /\ step.command = "e"
    /\ step.result.transition_map = "Hearthvale_Town"
    /\ step.result.transition_spawn = "spawn_house_06_exit"
    /\ map.name = "Hearthvale_Town"
    /\ player = PlayerState(108, 94, "south")

============================================================================
